---- MODULE Spec2Model ----
(***************************************************************************)
(* A model of the retrieval-and-dialogue core of RenderBot:                *)
(*   src/conversational_intelligence.py  (ConversationalIntelligence)      *)
(*   src/document_rag.py                 (DocumentRAG)                     *)
(* Python strings are modelled as sequences of one-character strings, so   *)
(* that lower(), strip(), split(), "in" and the regular expressions of the *)
(* source are computed character by character.                             *)
(***************************************************************************)
EXTENDS Integers, Sequences, FiniteSets, TLC

\* ------------------------------------------------------------------------
\* Bounds of the model
\* ------------------------------------------------------------------------
MaxCalls == 6

MaxSyncs == 2

MaxEdits == 1

MaxIngests == 2

MaxSentences == 60

\* the sentences of a document given to _create_chunks on its own
MaxDocSentences == 24

\* sentences of a document with headings given to _create_chunks, at most 9
MaxTopicSentences == 4

\* calls of generate_intelligent_response where the search results vary
MaxCrafts == 2

\* updates the bot receives in a private chat
MaxUpdates == 3

\* ------------------------------------------------------------------------
\* Python str operations
\* ------------------------------------------------------------------------
LowerLetters ==
  <<"a", "b", "c", "d", "e", "f", "g", "h", "i", "j", "k", "l", "m",
    "n", "o", "p", "q", "r", "s", "t", "u", "v", "w", "x", "y", "z">>

UpperLetters ==
  <<"A", "B", "C", "D", "E", "F", "G", "H", "I", "J", "K", "L", "M",
    "N", "O", "P", "Q", "R", "S", "T", "U", "V", "W", "X", "Y", "Z">>

LowerSet == {LowerLetters[i] : i \in 1..26}

UpperSet == {UpperLetters[i] : i \in 1..26}

DigitSet == {"0", "1", "2", "3", "4", "5", "6", "7", "8", "9"}

\* str.isspace() of one character
IsSpace(c) == c \in {" ", "\t", "\n", "\r"}

\* \w of the re module, on the characters the model uses
IsWordChar(c) == c \in LowerSet \/ c \in UpperSet \/ c \in DigitSet \/ c = "_"

\* the lower-case letter of an upper-case one
LowerOf == [c \in UpperSet |-> LowerLetters[CHOOSE i \in 1..26 : UpperLetters[i] = c]]

LowerChar(c) == IF c \in UpperSet THEN LowerOf[c] ELSE c

\* str.lower()
Lower(s) == [i \in 1..Len(s) |-> LowerChar(s[i])] \o <<>>

\* str.isupper(): at least one cased character, and no lower-case one
IsUpper(s) ==
  /\ \E i \in 1..Len(s) : s[i] \in UpperSet
  /\ \A i \in 1..Len(s) : s[i] \notin LowerSet

SetMin(S) == CHOOSE x \in S : \A y \in S : x <= y

SetMax(S) == CHOOSE x \in S : \A y \in S : y <= x

\* str.strip()
Strip(s) ==
  LET Between(idx) ==
        IF idx = {} THEN <<>> ELSE SubSeq(s, SetMin(idx), SetMax(idx))
  IN  Between({i \in 1..Len(s) : ~IsSpace(s[i])})

\* t in s
Contains(s, t) ==
  \E i \in 0..(Len(s) - Len(t)) : SubSeq(s, i + 1, i + Len(t)) = t

\* s.startswith(t)
StartsWith(s, t) == Len(t) <= Len(s) /\ SubSeq(s, 1, Len(t)) = t

\* s.endswith(t)
EndsWith(s, t) == Len(t) <= Len(s) /\ SubSeq(s, Len(s) - Len(t) + 1, Len(s)) = t

\* the elements of a finite set of integers within lo..hi in increasing
\* order, by halving the range
RECURSIVE SortedWithin(_, _, _)
SortedWithin(S, lo, hi) ==
  IF S = {} THEN <<>>
  ELSE IF lo = hi THEN <<lo>>
  ELSE LET mid == (lo + hi) \div 2
       IN  SortedWithin({x \in S : x <= mid}, lo, mid)
             \o SortedWithin({x \in S : x > mid}, mid + 1, hi)

\* the elements of a finite set of integers in increasing order
SortedSeq(S) == IF S = {} THEN <<>> ELSE SortedWithin(S, SetMin(S), SetMax(S))

\* the elements of seq at the indices of the set keep, in order
Select(seq, keep) ==
  LET Pick(at) == [k \in 1..Len(at) |-> seq[at[k]]] \o <<>>
  IN  Pick(SortedSeq(keep))

\* the character classes the source splits on: "space" is \s, "nonspace" is
\* its complement, "word" is \w
InClass(c, class) ==
  CASE class = "space"    -> IsSpace(c)
    [] class = "nonspace" -> ~IsSpace(c)
    [] class = "word"     -> IsWordChar(c)

\* the maximal runs of characters of a class, as <<first, last>> index pairs
\* in the order they occur
Runs(s, class) ==
  LET Pairs(starts, ends) ==
        [k \in 1..Len(starts) |-> <<starts[k], ends[k]>>] \o <<>>
      Edges(in) ==
        Pairs(SortedSeq({i \in 1..Len(s) : in[i] /\ (i = 1 \/ ~in[i - 1])}),
              SortedSeq({i \in 1..Len(s) : in[i] /\ (i = Len(s) \/ ~in[i + 1])}))
  IN  Edges([i \in 1..Len(s) |-> InClass(s[i], class)] \o <<>>)

\* the substrings of s at the <<first, last>> index pairs of r
Pieces(s, r) == [k \in 1..Len(r) |-> SubSeq(s, r[k][1], r[k][2])] \o <<>>

\* str.split() with no argument: the whitespace-separated words
Split(s) == Pieces(s, Runs(s, "nonspace"))

Range(f) == {f[i] : i \in DOMAIN f}

\* sep.join(parts[lo..hi]), by halving the range
RECURSIVE JoinRange(_, _, _, _)
JoinRange(parts, lo, hi, sep) ==
  IF lo > hi THEN <<>>
  ELSE IF lo = hi THEN parts[lo]
  ELSE LET mid == (lo + hi) \div 2
       IN  JoinRange(parts, lo, mid, sep) \o sep \o JoinRange(parts, mid + 1, hi, sep)

\* sep.join(parts)
Join(parts, sep) == JoinRange(parts, 1, Len(parts), sep)

\* seq[-n:]
LastN(seq, n) ==
  IF Len(seq) <= n THEN seq ELSE SubSeq(seq, Len(seq) - n + 1, Len(seq))

\* ------------------------------------------------------------------------
\* ConversationalIntelligence: repeat detection
\* ------------------------------------------------------------------------

\* _calculate_similarity: the Jaccard ratio len(intersection) / len(union) as
\* the pair <<numerator, denominator>>; 0.0 is <<0, 1>>
calculate_similarity(str1, str2) ==
  LET Ratio(words1, words2) ==
        IF words1 = {} \/ words2 = {}
          THEN <<0, 1>>
          ELSE <<Cardinality(words1 \cap words2), Cardinality(words1 \cup words2)>>
  IN  Ratio(Range(Split(str1)), Range(Split(str2)))

\* similarity > 0.6 on a ratio of two small integers: n/d > 3/5. The float
\* quotient n/d is the double nearest to the exact ratio and 0.6 is the double
\* nearest to 3/5, so the comparison agrees with the exact one.
AboveSimilarityThreshold(sim) == 5 * sim[1] > 3 * sim[2]

\* a variant of _is_repeat_question that looks at every stored message
is_repeat_question_all(hist, user_id, message) ==
  IF user_id \notin DOMAIN hist
    THEN FALSE
    ELSE \E k \in 1..Len(hist[user_id]) :
           AboveSimilarityThreshold(
             calculate_similarity(Lower(hist[user_id][k]), Lower(message)))

\* _is_repeat_question, the value it returns; hist is conversation_history
is_repeat_question(hist, user_id, message) ==
  IF user_id \notin DOMAIN hist
    THEN FALSE
    ELSE LET recent == LastN(hist[user_id], 3)
         IN  \E k \in 1..Len(recent) :
               AboveSimilarityThreshold(
                 calculate_similarity(Lower(recent[k]), Lower(message)))

\* _is_repeat_question, its effect on conversation_history
EnsureHistory(hist, user_id) ==
  IF user_id \in DOMAIN hist
    THEN hist
    ELSE [u \in DOMAIN hist \cup {user_id} |->
            IF u = user_id THEN <<>> ELSE hist[u]]

\* a variant of TrackConversation that never drops a message
TrackConversationKeepAll(hist, user_id, message) ==
  LET Track(h1) == [h1 EXCEPT ![user_id] = Append(h1[user_id], message)]
  IN  Track(EnsureHistory(hist, user_id))

\* a variant of TrackConversation with one history for all users
TrackConversationShared(hist, user_id, message) ==
  LET Trim(appended) == IF Len(appended) > 5 THEN LastN(appended, 5) ELSE appended
      Track(h1) == [u \in DOMAIN h1 |-> Trim(Append(h1[u], message))]
  IN  Track(EnsureHistory(hist, user_id))

\* generate_intelligent_response, lines 235-242: append, keep the last 5
TrackConversation(hist, user_id, message) ==
  LET Trim(appended) == IF Len(appended) > 5 THEN LastN(appended, 5) ELSE appended
      Track(h1) == [h1 EXCEPT ![user_id] = Trim(Append(h1[user_id], message))]
  IN  Track(EnsureHistory(hist, user_id))

\* ------------------------------------------------------------------------
\* ConversationalIntelligence: analysis of a message
\* ------------------------------------------------------------------------

\* s.count(c) for a one-character c
CountChar(s, c) == Cardinality({i \in 1..Len(s) : s[i] = c})

\* any(x in s for x in patterns)
ContainsAny(s, patterns) == \E x \in patterns : Contains(s, x)

\* _detect_tone(msg_lower, original)
detect_tone(msg_lower, original) ==
  IF ContainsAny(msg_lower, {<<"!">>, <<"w", "o", "w">>, <<"a", "m", "a", "z", "i", "n", "g">>, <<"a", "w", "e", "s", "o", "m", "e">>, <<"l", "o", "v", "e">>})
    THEN IF CountChar(original, "!") >= 2 \/ IsUpper(original)
           THEN "very_enthusiastic"
           ELSE "enthusiastic"
  ELSE IF ContainsAny(msg_lower, {<<"l", "o", "l">>, <<"h", "a", "h", "a">>, <<"h", "e", "y">>, <<"s", "u", "p">>, <<"c", "o", "o", "l">>, <<"n", "i", "c", "e">>})
    THEN "casual"
  ELSE IF ContainsAny(msg_lower, {<<"w", "h", "y", " ", "n", "o", "t">>, <<"s", "t", "i", "l", "l">>, <<"a", "g", "a", "i", "n">>, <<"u", "g", "h">>, <<"s", "e", "r", "i", "o", "u", "s", "l", "y">>})
    THEN "frustrated"
  ELSE IF ContainsAny(msg_lower, {<<"m", "a", "y", "b", "e">>, <<"h", "m", "m">>, <<"i", "d", "k">>, <<"n", "o", "t", " ", "s", "u", "r", "e">>, <<".", ".", ".">>})
    THEN "uncertain"
  ELSE IF ContainsAny(msg_lower, {<<"p", "l", "e", "a", "s", "e">>, <<"c", "o", "u", "l", "d", " ", "y", "o", "u">>, <<"w", "o", "u", "l", "d", " ", "y", "o", "u">>, <<"k", "i", "n", "d", "l", "y">>})
    THEN "formal"
  ELSE "neutral"

\* _detect_emotion(msg_lower)
detect_emotion(msg_lower) ==
  IF ContainsAny(msg_lower, {<<"e", "x", "c", "i", "t", "e", "d">>, <<"c", "a", "n", "'", "t", " ", "w", "a", "i", "t">>, <<"a", "m", "a", "z", "i", "n", "g">>, <<"w", "o", "n", "d", "e", "r", "f", "u", "l">>})
    THEN "excited"
  ELSE IF ContainsAny(msg_lower, {<<"f", "r", "u", "s", "t", "r", "a", "t", "e", "d">>, <<"a", "n", "n", "o", "y", "i", "n", "g">>, <<"d", "i", "s", "a", "p", "p", "o", "i", "n", "t", "e", "d">>, <<"t", "i", "r", "e", "d", " ", "o", "f">>})
    THEN "frustrated"
  ELSE IF ContainsAny(msg_lower, {<<"c", "o", "n", "f", "u", "s", "e", "d">>, <<"d", "o", "n", "'", "t", " ", "u", "n", "d", "e", "r", "s", "t", "a", "n", "d">>, <<"w", "h", "a", "t", " ", "d", "o", " ", "y", "o", "u", " ", "m", "e", "a", "n">>, <<"h", "u", "h">>})
    THEN "confused"
  ELSE IF /\ Contains(msg_lower, <<"?">>)
          /\ ContainsAny(msg_lower, {<<"h", "o", "w">>, <<"w", "h", "y">>, <<"w", "h", "a", "t">>, <<"w", "h", "e", "n">>})
    THEN "curious"
  ELSE IF ContainsAny(msg_lower, {<<"t", "h", "a", "n", "k", "s">>, <<"t", "h", "a", "n", "k", " ", "y", "o", "u">>, <<"p", "e", "r", "f", "e", "c", "t">>, <<"g", "r", "e", "a", "t">>, <<"h", "e", "l", "p", "e", "d">>})
    THEN "satisfied"
  ELSE "neutral"

\* _detect_intent(msg_lower)
detect_intent(msg_lower) ==
  IF \/ Contains(msg_lower, <<"?">>)
     \/ \E x \in {<<"w", "h", "a", "t">>, <<"w", "h", "e", "r", "e">>, <<"w", "h", "e", "n">>, <<"h", "o", "w">>, <<"w", "h", "y">>, <<"w", "h", "o">>} :
          StartsWith(msg_lower, x)
    THEN "information_seeking"
  ELSE IF ContainsAny(msg_lower, {<<"v", "s">>, <<"v", "e", "r", "s", "u", "s">>, <<"c", "o", "m", "p", "a", "r", "e", "d", " ", "t", "o">>, <<"b", "e", "t", "t", "e", "r", " ", "t", "h", "a", "n">>, <<"d", "i", "f", "f", "e", "r", "e", "n", "c", "e", " ", "b", "e", "t", "w", "e", "e", "n">>})
    THEN "comparison"
  ELSE IF ContainsAny(msg_lower, {<<"r", "e", "c", "o", "m", "m", "e", "n", "d">>, <<"s", "u", "g", "g", "e", "s", "t">>, <<"b", "e", "s", "t">>, <<"s", "h", "o", "u", "l", "d", " ", "i">>, <<"w", "h", "i", "c", "h", " ", "o", "n", "e">>})
    THEN "recommendation"
  ELSE IF ContainsAny(msg_lower, {<<"p", "r", "o", "b", "l", "e", "m">>, <<"i", "s", "s", "u", "e">>, <<"d", "o", "e", "s", "n", "'", "t", " ", "w", "o", "r", "k">>, <<"n", "o", "t", " ", "w", "o", "r", "k", "i", "n", "g">>, <<"h", "e", "l", "p">>})
    THEN "problem_solving"
  ELSE IF ContainsAny(msg_lower, {<<"h", "i">>, <<"h", "e", "l", "l", "o">>, <<"h", "e", "y">>, <<"w", "h", "a", "t", "'", "s", " ", "u", "p">>, <<"h", "o", "w", " ", "a", "r", "e", " ", "y", "o", "u">>})
    THEN "social"
  ELSE IF ContainsAny(msg_lower, {<<"l", "o", "l">>, <<"h", "m", "m">>, <<"o", "k">>, <<"i", " ", "s", "e", "e">>, <<"a", "l", "r", "i", "g", "h", "t">>, <<"g", "o", "t", " ", "i", "t">>})
    THEN "feedback"
  ELSE "general_query"

\* the values _detect_intent returns
Intents ==
  {"information_seeking", "comparison", "recommendation", "problem_solving",
   "social", "feedback", "general_query"}

\* A confidence is a double. The model holds it as the number of tenths it
\* stands for and the sign of its distance to the double nearest to that many
\* tenths: 0.8 - 0.2 is 0.6000000000000001, [tenths |-> 6, ulps |-> 1].
\* The signs are those of IEEE 754 double arithmetic on the sums of
\* _calculate_confidence, in the order the code adds: + 0.1 for a clear
\* question, - 0.3 for a vague word, - 0.2 for a short message, + 0.1 for a
\* term of Namibia.
ConfidenceSum(question, vague, short, term) ==
  [tenths |-> 8 + (IF question THEN 1 ELSE 0) - (IF vague THEN 3 ELSE 0)
                - (IF short THEN 2 ELSE 0) + (IF term THEN 1 ELSE 0),
   ulps   |-> IF question /\ ~vague /\ short /\ term THEN 0 - 1
              ELSE IF (~question /\ ~vague /\ short) \/ (question /\ vague) THEN 1
              ELSE 0]

\* max(0.0, min(1.0, confidence))
ClampConfidence(c) ==
  IF c.tenths < 0 \/ (c.tenths = 0 /\ c.ulps < 0) THEN [tenths |-> 0, ulps |-> 0]
  ELSE IF c.tenths > 10 \/ (c.tenths = 10 /\ c.ulps > 0) THEN [tenths |-> 10, ulps |-> 0]
  ELSE c

\* confidence < self.confidence_threshold, which is 0.7
BelowConfidenceThreshold(c) == c.tenths < 7 \/ (c.tenths = 7 /\ c.ulps < 0)

\* a variant of _calculate_confidence that counts in percent
calculate_confidence_percent(message, intent) ==
  [tenths |-> 80, ulps |-> 0]

\* _calculate_confidence(message, intent)
calculate_confidence(message, intent) ==
  LET Sum(msg_lower) ==
        ConfidenceSum(
          Contains(message, <<"?">>) /\ intent = "information_seeking",
          ContainsAny(msg_lower, {<<"s", "t", "u", "f", "f">>, <<"t", "h", "i", "n", "g", "s">>, <<"s", "o", "m", "e", "t", "h", "i", "n", "g">>, <<"a", "n", "y", "t", "h", "i", "n", "g">>, <<"w", "h", "a", "t", "e", "v", "e", "r">>}),
          Len(Split(message)) <= 2,
          ContainsAny(msg_lower, {<<"n", "a", "m", "i", "b", "i", "a">>, <<"e", "t", "o", "s", "h", "a">>, <<"w", "i", "n", "d", "h", "o", "e", "k">>, <<"s", "o", "s", "s", "u", "s", "v", "l", "e", "i">>, <<"s", "w", "a", "k", "o", "p", "m", "u", "n", "d">>, <<"h", "i", "m", "b", "a">>}))
  IN  ClampConfidence(Sum(Lower(message)))

\* a variant of _is_vague_question without the list of vague patterns
is_vague_question_short(msg_lower) ==
  Len(Split(msg_lower)) <= 2 /\ Contains(msg_lower, <<"?">>)

\* _is_vague_question(msg_lower)
is_vague_question(msg_lower) ==
  \/ Len(Split(msg_lower)) <= 2 /\ Contains(msg_lower, <<"?">>)
  \/ ContainsAny(msg_lower, {<<"t", "e", "l", "l", " ", "m", "e", " ", "a", "b", "o", "u", "t", " ", "n", "a", "m", "i", "b", "i", "a">>, <<"w", "h", "a", "t", " ", "a", "b", "o", "u", "t", " ", "n", "a", "m", "i", "b", "i", "a">>, <<"a", "n", "y", "t", "h", "i", "n", "g", " ", "a", "b", "o", "u", "t">>,
                             <<"e", "v", "e", "r", "y", "t", "h", "i", "n", "g", " ", "a", "b", "o", "u", "t">>, <<"i", "n", "f", "o", " ", "a", "b", "o", "u", "t">>, <<"s", "t", "u", "f", "f", " ", "a", "b", "o", "u", "t">>, <<"t", "h", "i", "n", "g", "s", " ", "a", "b", "o", "u", "t">>})

\* _needs_clarification(msg_lower)
needs_clarification(msg_lower) ==
  \/ Range(Split(msg_lower))
       \cap {<<"s", "t", "u", "f", "f">>, <<"t", "h", "i", "n", "g", "s">>, <<"s", "o", "m", "e", "t", "h", "i", "n", "g">>, <<"i", "t">>, <<"t", "h", "e", "r", "e">>, <<"t", "h", "a", "t">>} # {}
  \/ CountChar(msg_lower, "?") > 1

\* _assess_engagement(msg_lower)
assess_engagement(msg_lower) ==
  IF ContainsAny(msg_lower, {<<"o", "k">>, <<"h", "m", "m">>, <<"k">>, <<"a", "l", "r", "i", "g", "h", "t">>, <<"w", "h", "a", "t", "e", "v", "e", "r">>}) THEN "low"
  ELSE IF Len(Split(msg_lower)) > 10 \/ Contains(msg_lower, <<"!">>) THEN "high"
  ELSE "medium"

\* analyze_user_intent(message, user_id), the dictionary it returns; hist is
\* conversation_history
analyze_user_intent(hist, message, user_id) ==
  LET Confident(msg_lower, intent) ==
        [intent              |-> intent,
         tone                |-> detect_tone(msg_lower, message),
         emotion             |-> detect_emotion(msg_lower),
         confidence          |-> calculate_confidence(message, intent),
         is_vague            |-> is_vague_question(msg_lower),
         needs_clarification |-> needs_clarification(msg_lower),
         is_repeat           |-> is_repeat_question(hist, user_id, message),
         engagement_level    |-> assess_engagement(msg_lower)]
      Analysis(msg_lower) == Confident(msg_lower, detect_intent(msg_lower))
  IN  Analysis(Strip(Lower(message)))

\* ------------------------------------------------------------------------
\* ConversationalIntelligence: the response
\* ------------------------------------------------------------------------

\* A response is held as the template the code returns and the fields of a
\* search result the template is filled with; raised is TRUE when the call
\* raises instead of returning.
NoField == <<"None">>

\* a template without any field of a search result
Static(template) ==
  [raised |-> FALSE, template |-> template, topic |-> NoField, content |-> NoField]

\* result['topic'] of a result without that key
KeyError ==
  [raised |-> TRUE, template |-> "KeyError", topic |-> NoField, content |-> NoField]

\* a template filled with result['topic'] and result['content']
Filled(template, result) ==
  IF {"topic", "content"} \subseteq DOMAIN result
    THEN [raised |-> FALSE, template |-> template,
          topic |-> result.topic, content |-> result.content]
    ELSE KeyError

\* a variant of _handle_low_engagement that shows the first search result
handle_low_engagement_with_result(message, analysis, search_results) ==
  IF search_results # <<>>
    THEN Filled("low_got_it", search_results[1])
    ELSE Static("low_got_it")

\* _handle_low_engagement(message, analysis, search_results)
handle_low_engagement(message, analysis, search_results) ==
  LET Reply(msg_lower) ==
        IF msg_lower \in {<<"o", "k">>, <<"k">>, <<"a", "l", "r", "i", "g", "h", "t">>} THEN Static("low_got_it")
        ELSE IF msg_lower \in {<<"h", "m", "m">>, <<"h", "m">>, <<"u", "m", "m">>} THEN Static("low_not_quite")
        ELSE IF Contains(msg_lower, <<"w", "h", "a", "t", "e", "v", "e", "r">>) THEN Static("low_no_worries")
        ELSE Static("low_anything_else")
  IN  Reply(Strip(Lower(message)))

\* _handle_repeat_question(message, search_results)
handle_repeat_question(search_results) ==
  IF search_results = <<>>
    THEN Static("repeat_rephrase")
    ELSE Filled("repeat_more_specific", search_results[1])

\* _handle_vague_question(message)
handle_vague_question(message) ==
  LET Ask(msg_lower) ==
        IF \/ Contains(msg_lower, <<"t", "e", "l", "l", " ", "m", "e", " ", "a", "b", "o", "u", "t", " ", "n", "a", "m", "i", "b", "i", "a">>)
           \/ Contains(msg_lower, <<"w", "h", "a", "t", " ", "a", "b", "o", "u", "t", " ", "n", "a", "m", "i", "b", "i", "a">>)
          THEN Static("vague_what_interests_you")
        ELSE IF msg_lower = <<"n", "a", "m", "i", "b", "i", "a", "?">> \/ Contains(msg_lower, <<"t", "e", "l", "l", " ", "m", "e">>)
          THEN Static("vague_what_aspect")
        ELSE Static("vague_be_more_specific")
  IN  Ask(Lower(message))

\* the templates of _handle_vague_question: one clarifying question each
ClarifyingQuestions ==
  {"vague_what_interests_you", "vague_what_aspect", "vague_be_more_specific"}

\* _handle_low_confidence(message, search_results)
handle_low_confidence(search_results) ==
  IF search_results # <<>>
    THEN Filled("unsure_might_help", search_results[1])
    ELSE Static("unsure_rephrase")

\* _no_results_response(tone)
no_results_response(tone) ==
  IF tone = "very_enthusiastic" THEN Static("none_very_enthusiastic")
  ELSE IF tone = "casual" THEN Static("none_casual")
  ELSE IF tone = "formal" THEN Static("none_formal")
  ELSE Static("none_neutral")

\* _match_tone_response(message, analysis, search_results, response_type)
match_tone_response(analysis, search_results) ==
  IF search_results = <<>> THEN no_results_response(analysis.tone)
  ELSE IF analysis.tone = "very_enthusiastic"
    THEN Filled("tone_very_enthusiastic", search_results[1])
  ELSE IF analysis.tone = "enthusiastic"
    THEN Filled("tone_enthusiastic", search_results[1])
  ELSE IF analysis.tone = "casual"
    THEN Filled("tone_casual", search_results[1])
  ELSE IF analysis.tone = "formal"
    THEN Filled(IF Len(search_results) > 1 THEN "tone_formal_more" ELSE "tone_formal",
                search_results[1])
  ELSE Filled(IF Len(search_results) > 1 THEN "tone_neutral_more" ELSE "tone_neutral",
              search_results[1])

\* _handle_emotional_query(message, analysis, search_results)
handle_emotional_query(analysis, search_results) ==
  IF analysis.emotion = "excited"
    THEN IF search_results # <<>>
           THEN Filled("excited_is_amazing", search_results[1])
           ELSE Static("excited_what_excites_you")
  ELSE IF analysis.emotion = "frustrated" THEN Static("frustrated")
  ELSE IF analysis.emotion = "confused" THEN Static("confused")
  ELSE IF analysis.emotion = "satisfied" THEN Static("satisfied")
  ELSE match_tone_response(analysis, search_results)

\* a variant of _craft_response that asks about a vague question before it
\* looks for a repetition
craft_response_vague_first(message, analysis, search_results) ==
  IF analysis.engagement_level = "low" THEN handle_low_engagement(message, analysis, search_results)
  ELSE IF analysis.is_vague THEN handle_vague_question(message)
  ELSE IF analysis.is_repeat THEN handle_repeat_question(search_results)
  ELSE IF BelowConfidenceThreshold(analysis.confidence)
    THEN handle_low_confidence(search_results)
  ELSE IF analysis.emotion # "neutral"
    THEN handle_emotional_query(analysis, search_results)
  ELSE match_tone_response(analysis, search_results)

\* _craft_response(message, analysis, search_results, response_type)
craft_response(message, analysis, search_results) ==
  IF analysis.engagement_level = "low" THEN handle_low_engagement(message, analysis, search_results)
  ELSE IF analysis.is_repeat THEN handle_repeat_question(search_results)
  ELSE IF analysis.is_vague THEN handle_vague_question(message)
  ELSE IF BelowConfidenceThreshold(analysis.confidence)
    THEN handle_low_confidence(search_results)
  ELSE IF analysis.emotion # "neutral"
    THEN handle_emotional_query(analysis, search_results)
  ELSE match_tone_response(analysis, search_results)

\* ------------------------------------------------------------------------
\* DocumentRAG: text helpers
\* ------------------------------------------------------------------------
StopWords ==
  {<<"t", "h", "e">>, <<"a">>, <<"a", "n">>, <<"a", "n", "d">>, <<"o", "r">>,
   <<"b", "u", "t">>, <<"i", "n">>, <<"o", "n">>, <<"a", "t">>, <<"t", "o">>,
   <<"f", "o", "r">>, <<"o", "f">>, <<"w", "i", "t", "h">>, <<"b", "y">>,
   <<"f", "r", "o", "m">>, <<"i", "s">>, <<"a", "r", "e">>, <<"w", "a", "s">>,
   <<"w", "e", "r", "e">>, <<"b", "e">>, <<"b", "e", "e", "n">>, <<"h", "a", "v", "e">>,
   <<"h", "a", "s">>, <<"h", "a", "d">>, <<"d", "o">>, <<"d", "o", "e", "s">>,
   <<"d", "i", "d">>, <<"w", "i", "l", "l">>, <<"w", "o", "u", "l", "d">>,
   <<"c", "o", "u", "l", "d">>, <<"s", "h", "o", "u", "l", "d">>, <<"m", "a", "y">>,
   <<"m", "i", "g", "h", "t">>, <<"c", "a", "n">>, <<"t", "h", "i", "s">>,
   <<"t", "h", "a", "t">>, <<"t", "h", "e", "s", "e">>, <<"t", "h", "o", "s", "e">>,
   <<"w", "h", "a", "t">>, <<"w", "h", "e", "r", "e">>, <<"w", "h", "e", "n">>,
   <<"w", "h", "y">>, <<"h", "o", "w">>, <<"w", "h", "o">>, <<"w", "h", "i", "c", "h">>,
   <<"t", "e", "l", "l">>, <<"m", "e">>, <<"a", "b", "o", "u", "t">>, <<"k", "n", "o", "w">>,
   <<"p", "l", "e", "a", "s", "e">>}

SearchExtraStopWords ==
  {<<"t", "h", "a", "n", "k">>, <<"t", "h", "a", "n", "k", "s">>, <<"h", "e", "l", "l", "o">>,
   <<"h", "i">>, <<"h", "e", "y">>, <<"e", "v", "a">>, <<"b", "o", "t">>,
   <<"n", "a", "m", "i", "b", "i", "a">>, <<"n", "a", "m", "i", "b", "i", "a", "n">>}

QuestionWords ==
  <<<<"w", "h", "o">>, <<"w", "h", "a", "t">>, <<"w", "h", "e", "r", "e">>,
   <<"w", "h", "e", "n">>, <<"w", "h", "y">>, <<"h", "o", "w">>, <<"w", "h", "i", "c", "h">>>>

\* chunk_size, the default of _create_chunks
DefaultChunkSize == 300

\* the character budget of _summarize_chunk
SummaryBudget == 400

\* the character budget of a search result's text
ResultBudget == 500

Ellipsis == <<".", ".", ".">>

Space == <<" ">>

\* the value None of an optional query
NoQuery == <<"None">>

\* re.sub(r'\s+', ' ', text).strip()
NormalizeSpace(text) == Join(Pieces(text, Runs(text, "nonspace")), Space)

SentenceEnd(c) == c \in {".", "!", "?"}

\* re.split(r'(?<=[.!?])\s+', text): the pieces between the whitespace runs
\* that directly follow one of . ! ?
SplitSentences(text) ==
  LET Cut(gaps) ==
        [k \in 1..(Len(gaps) + 1) |->
           SubSeq(text,
                  IF k = 1 THEN 1 ELSE gaps[k - 1][2] + 1,
                  IF k = Len(gaps) + 1 THEN Len(text) ELSE gaps[k][1] - 1)] \o <<>>
      After(ws) ==
        Cut(Select(ws, {k \in 1..Len(ws) :
                          ws[k][1] > 1 /\ SentenceEnd(text[ws[k][1] - 1])}))
  IN  After(Runs(text, "space"))

\* re.findall(r'\b[a-z]{3,}\b', text): the maximal runs of word characters
\* that are lower-case letters only and at least 3 long
LowerTokens(text) ==
  LET Keep(r) ==
        Select(r, {k \in 1..Len(r) :
                     /\ r[k][2] - r[k][1] + 1 >= 3
                     /\ \A i \in r[k][1]..r[k][2] : text[i] \in LowerSet})
  IN  Pieces(text, Keep(Runs(text, "word")))

\* [w for w in words if w not in stop]
FilterOut(words, stop) ==
  Select(words, {i \in 1..Len(words) : words[i] \notin stop})

\* the first occurrences of the elements of words, in order
Unique(words) ==
  Select(words, {i \in 1..Len(words) : \A j \in 1..(i - 1) : words[j] # words[i]})

\* seq[:n]
FirstN(seq, n) == IF Len(seq) <= n THEN seq ELSE SubSeq(seq, 1, n)

\* _extract_keywords
extract_keywords(text) ==
  FirstN(Unique(FilterOut(LowerTokens(Lower(text)), StopWords)), 15)

\* ------------------------------------------------------------------------
\* DocumentRAG._create_chunks
\* ------------------------------------------------------------------------
CapitalizedWord(w) ==
  /\ Len(w) >= 1
  /\ w[1] \in UpperSet
  /\ \A i \in 2..Len(w) : w[i] \in LowerSet

\* re.match(r'^[A-Z][a-z]*(?:\s+[A-Z][a-z]*)*:$', sentence)
MatchesTitleColon(s) ==
  /\ Len(s) >= 2
  /\ s[Len(s)] = ":"
  /\ ~IsSpace(s[1])
  /\ ~IsSpace(s[Len(s) - 1])
  /\ \A w \in Range(Split(SubSeq(s, 1, Len(s) - 1))) : CapitalizedWord(w)

\* re.match(r'^[0-9]+\.\s', sentence)
MatchesNumbered(s) ==
  \E n \in 1..(Len(s) - 2) :
    /\ \A i \in 1..n : s[i] \in DigitSet
    /\ s[n + 1] = "."
    /\ IsSpace(s[n + 2])

\* is_heading of _create_chunks
IsHeading(sentence) ==
  \/ IsUpper(sentence)
  \/ Len(sentence) < 50
  \/ MatchesTitleColon(sentence)
  \/ MatchesNumbered(sentence)

\* a chunk dictionary
MakeChunk(chunk_text, filename, word_count, is_summary) ==
  [text       |-> chunk_text,
   filename   |-> filename,
   word_count |-> word_count,
   keywords   |-> extract_keywords(chunk_text),
   is_summary |-> is_summary]

\* a variant of ChunkStep that starts the buffer again only when it saved it
ChunkStepKeepSmall(state, raw_sentence, filename, chunk_size) ==
  LET \* lines 299-310: the sentence is added, and a full buffer is saved
      Add(chunks1, chunk2, count2) ==
        IF count2 >= chunk_size
          THEN [i                  |-> state.i + 1,
                chunks             |-> Append(chunks1,
                                              MakeChunk(Join(chunk2, Space),
                                                        filename, count2, FALSE)),
                current_chunk      |-> <<>>,
                current_word_count |-> 0]
          ELSE [i                  |-> state.i + 1,
                chunks             |-> chunks1,
                current_chunk      |-> chunk2,
                current_word_count |-> count2]
      \* lines 284-297: at a topic boundary a buffer of 50 words is saved, and
      \* the buffer starts again
      Topic(sentence, words, boundary) ==
        Add(IF boundary /\ state.current_word_count >= 50
              THEN Append(state.chunks,
                          MakeChunk(Join(state.current_chunk, Space), filename,
                                    state.current_word_count, FALSE))
              ELSE state.chunks,
            Append(IF boundary /\ state.current_word_count >= 50
                     THEN <<>> ELSE state.current_chunk, sentence),
            (IF boundary /\ state.current_word_count >= 50
               THEN 0 ELSE state.current_word_count) + Len(words))
      \* lines 266-272: empty and very short sentences are skipped
      Take(sentence, words) ==
        IF sentence = <<>> \/ Len(words) < 3
          THEN [state EXCEPT !.i = @ + 1]
          ELSE Topic(sentence, words,
                     IsHeading(sentence) /\ state.current_chunk # <<>>)
      Stripped(sentence) == Take(sentence, Split(sentence))
  IN  Stripped(Strip(raw_sentence))

\* one pass of the loop over the sentences, lines 265-310; state is
\* [i, chunks, current_chunk, current_word_count], i the index of the sentence
\* the loop is at
ChunkStep(state, raw_sentence, filename, chunk_size) ==
  LET \* lines 299-310: the sentence is added, and a full buffer is saved
      Add(chunks1, chunk2, count2) ==
        IF count2 >= chunk_size
          THEN [i                  |-> state.i + 1,
                chunks             |-> Append(chunks1,
                                              MakeChunk(Join(chunk2, Space),
                                                        filename, count2, FALSE)),
                current_chunk      |-> <<>>,
                current_word_count |-> 0]
          ELSE [i                  |-> state.i + 1,
                chunks             |-> chunks1,
                current_chunk      |-> chunk2,
                current_word_count |-> count2]
      \* lines 284-297: at a topic boundary a buffer of 50 words is saved, and
      \* the buffer starts again
      Topic(sentence, words, boundary) ==
        Add(IF boundary /\ state.current_word_count >= 50
              THEN Append(state.chunks,
                          MakeChunk(Join(state.current_chunk, Space), filename,
                                    state.current_word_count, FALSE))
              ELSE state.chunks,
            Append(IF boundary THEN <<>> ELSE state.current_chunk, sentence),
            (IF boundary THEN 0 ELSE state.current_word_count) + Len(words))
      \* lines 266-272: empty and very short sentences are skipped
      Take(sentence, words) ==
        IF sentence = <<>> \/ Len(words) < 3
          THEN [state EXCEPT !.i = @ + 1]
          ELSE Topic(sentence, words,
                     IsHeading(sentence) /\ state.current_chunk # <<>>)
      Stripped(sentence) == Take(sentence, Split(sentence))
  IN  Stripped(Strip(raw_sentence))

\* the loop over the sentences from sentence state.i up to sentence hi, by
\* halving the range
RECURSIVE ChunkLoop(_, _, _, _, _)
ChunkLoop(sentences, state, hi, filename, chunk_size) ==
  IF state.i > hi THEN state
  ELSE IF state.i = hi THEN ChunkStep(state, sentences[hi], filename, chunk_size)
  ELSE ChunkLoop(sentences,
                 ChunkLoop(sentences, state, (state.i + hi) \div 2, filename,
                           chunk_size),
                 hi, filename, chunk_size)

\* a variant of TopicalChunks that keeps whatever is left in the buffer
TopicalChunksKeepRest(text, filename, chunk_size) ==
  LET Rest(r) ==
        IF r.current_chunk # <<>>
          THEN Append(r.chunks, MakeChunk(Join(r.current_chunk, Space), filename,
                                          r.current_word_count, FALSE))
          ELSE r.chunks
      Loop(sentences) ==
        Rest(ChunkLoop(sentences,
                       [i |-> 1, chunks |-> <<>>, current_chunk |-> <<>>,
                        current_word_count |-> 0],
                       Len(sentences), filename, chunk_size))
  IN  Loop(SplitSentences(NormalizeSpace(text)))

\* the topical chunks: the loop and the remaining buffer, lines 256-321
TopicalChunks(text, filename, chunk_size) ==
  LET Rest(r) ==
        IF r.current_chunk # <<>> /\ r.current_word_count >= 30
          THEN Append(r.chunks, MakeChunk(Join(r.current_chunk, Space), filename,
                                          r.current_word_count, FALSE))
          ELSE r.chunks
      Loop(sentences) ==
        Rest(ChunkLoop(sentences,
                       [i |-> 1, chunks |-> <<>>, current_chunk |-> <<>>,
                        current_word_count |-> 0],
                       Len(sentences), filename, chunk_size))
  IN  Loop(SplitSentences(NormalizeSpace(text)))

\* the summary chunk put in front, lines 323-337
WithSummary(chunks, filename) ==
  LET Front(summary) ==
        <<MakeChunk(summary, filename, Len(Split(summary)), TRUE)>> \o chunks
      Cut(joined) ==
        Front(IF Len(joined) > 500
                THEN SubSeq(joined, 1, 497) \o Ellipsis
                ELSE joined)
      Heads(first3) == Cut(Join([i \in 1..Len(first3) |-> first3[i].text], Space))
  IN  IF chunks = <<>> THEN chunks ELSE Heads(FirstN(chunks, 3))

\* _create_chunks(text, filename, chunk_size)
create_chunks_sized(text, filename, chunk_size) ==
  WithSummary(TopicalChunks(text, filename, chunk_size), filename)

\* _create_chunks(text, filename)
create_chunks(text, filename) ==
  create_chunks_sized(text, filename, DefaultChunkSize)

\* ------------------------------------------------------------------------
\* DocumentRAG._summarize_chunk and _smart_truncate
\* ------------------------------------------------------------------------

\* "if query", the truth value of an optional string
HasQuery(query) == query # NoQuery /\ query # <<>>

\* query.lower().split() without the stop words
SummaryQueryWords(query) == FilterOut(Split(Lower(query)), StopWords)

\* sum(1 for word in query_words if word in sentence_lower)
SentenceScore(sentence, query_words) ==
  LET Count(sentence_lower) ==
        Cardinality({k \in 1..Len(query_words) :
                       Contains(sentence_lower, query_words[k])})
  IN  Count(Lower(sentence))

SentenceScores(sentences, query_words) ==
  [i \in 1..Len(sentences) |-> SentenceScore(sentences[i], query_words)] \o <<>>

\* a variant of RankOf for a sort that puts the later of two equal elements
\* first
RankOfLastFirst(scores, i) ==
  1 + Cardinality({j \in 1..Len(scores) :
                     scores[j] > scores[i] \/ (scores[j] = scores[i] /\ j > i)})

\* the place element i takes in list.sort(key=score, reverse=True), which is
\* stable: after every element with a higher score and after the earlier
\* elements with the same score
RankOf(scores, i) ==
  1 + Cardinality({j \in 1..Len(scores) :
                     scores[j] > scores[i] \/ (scores[j] = scores[i] /\ j < i)})

\* the indices of scores in the order sort(key=score, reverse=True) gives
SortDescStable(scores) ==
  LET Place(rank) ==
        [p \in 1..Len(scores) |-> CHOOSE i \in 1..Len(scores) : rank[i] = p] \o <<>>
  IN  Place([i \in 1..Len(scores) |-> RankOf(scores, i)] \o <<>>)

\* _smart_truncate, one pass of the loop of lines 429-432; state is
\* [i, result, total_length], i the place in the sorted list the loop is at
PackRelevantStep(state, sentence, score, max_length) ==
  IF score > 0 /\ state.total_length + Len(sentence) < max_length - 100
    THEN [i            |-> state.i + 1,
          result       |-> Append(state.result, sentence),
          total_length |-> state.total_length + Len(sentence)]
    ELSE [state EXCEPT !.i = @ + 1]

\* the loop of lines 429-432 from place state.i up to place hi of order, the
\* sentence indices sorted by score, by halving the range
RECURSIVE PackRelevant(_, _, _, _, _, _)
PackRelevant(sentences, scores, order, state, hi, max_length) ==
  IF state.i > hi THEN state
  ELSE IF state.i = hi
    THEN PackRelevantStep(state, sentences[order[hi]], scores[order[hi]], max_length)
  ELSE PackRelevant(sentences, scores, order,
                    PackRelevant(sentences, scores, order, state,
                                 (state.i + hi) \div 2, max_length),
                    hi, max_length)

\* _smart_truncate, one pass of the loop of lines 444-449; state is
\* [i, result, total_length]; the break leaves the loop by moving i past last
PackFirstStep(state, sentence, last, max_length) ==
  IF state.total_length + Len(sentence) < max_length - 50
    THEN [i            |-> state.i + 1,
          result       |-> Append(state.result, sentence),
          total_length |-> state.total_length + Len(sentence)]
    ELSE [state EXCEPT !.i = last + 1]

\* the loop of lines 444-449 from sentence state.i up to sentence hi, by
\* halving the range
RECURSIVE PackFirst(_, _, _, _)
PackFirst(sentences, state, hi, max_length) ==
  IF state.i > hi THEN state
  ELSE IF state.i = hi
    THEN PackFirstStep(state, sentences[hi], Len(sentences), max_length)
  ELSE PackFirst(sentences,
                 PackFirst(sentences, state, (state.i + hi) \div 2, max_length),
                 hi, max_length)

\* _smart_truncate(text, max_length, query)
smart_truncate(text, max_length, query) ==
  LET \* lines 435-438
      Cut(truncated) ==
        IF Len(truncated) > max_length
          THEN SubSeq(truncated, 1, max_length - 3) \o Ellipsis
          ELSE truncated
      \* lines 452-455
      Mark(truncated) ==
        IF Len(truncated) < Len(text) THEN truncated \o Ellipsis ELSE truncated
      \* relevant is the result of the loop over the scored sentences, empty
      \* without a query; first is the result of the fallback loop
      Finish(relevant, first) ==
        IF relevant # <<>> THEN Cut(Join(relevant, Space))
        ELSE IF first # <<>> THEN Mark(Join(first, Space))
        ELSE SubSeq(text, 1, max_length - 3) \o Ellipsis
      \* lines 415-432
      ByScore(sentences, scores) ==
        PackRelevant(sentences, scores, SortDescStable(scores),
                     [i |-> 1, result |-> <<>>, total_length |-> 0],
                     Len(sentences), max_length).result
      Pack(sentences) ==
        Finish(IF HasQuery(query)
                 THEN ByScore(sentences,
                              SentenceScores(sentences, SummaryQueryWords(query)))
                 ELSE <<>>,
               PackFirst(sentences,
                         [i |-> 1, result |-> <<>>, total_length |-> 0],
                         Len(sentences), max_length).result)
  IN  IF Len(text) <= max_length THEN text ELSE Pack(SplitSentences(text))

\* the budget applied to a summary, lines 347-349, 379-381 and 385-387
WithinBudget(summary, query) ==
  IF Len(summary) > SummaryBudget
    THEN smart_truncate(summary, SummaryBudget, query)
    ELSE summary

\* _summarize_chunk(chunk_text, query)
summarize_chunk(chunk_text, query) ==
  LET \* relevant_sentences[:3] after the sort, lines 377-378
      Top(sentences, relevant, order) ==
        [k \in 1..Len(FirstN(order, 3)) |-> sentences[relevant[order[k]]]]
      Best(sentences, scores, relevant) ==
        IF relevant # <<>>
          THEN Join(Top(sentences, relevant,
                        SortDescStable([k \in 1..Len(relevant) |->
                                          scores[relevant[k]]])), Space)
          ELSE Join(FirstN(sentences, 3), Space)
      Scored(sentences, scores) ==
        Best(sentences, scores,
             SortedSeq({i \in 1..Len(sentences) : scores[i] > 0}))
      Summary(sentences) ==
        Scored(sentences, SentenceScores(sentences, SummaryQueryWords(query)))
  IN  WithinBudget(IF ~HasQuery(query) \/ Len(chunk_text) < 200
                     THEN chunk_text
                     ELSE Summary(SplitSentences(chunk_text)),
                   query)

\* ------------------------------------------------------------------------
\* DocumentRAG.search_documents
\* ------------------------------------------------------------------------
WelcomeTo == <<"w", "e", "l", "c", "o", "m", "e", " ", "t", "o">>

WelcomeUpper == <<"W", "E", "L", "C", "O", "M", "E">>

Introduction == <<"i", "n", "t", "r", "o", "d", "u", "c", "t", "i", "o", "n">>

Newline == <<"\n">>

\* the query words of search_documents, lines 506-521
SearchQueryWords(query) ==
  FilterOut(LowerTokens(Strip(Lower(query))), StopWords \cup SearchExtraStopWords)

\* a variant of PhraseBonus that rewards only a chunk equal to the query
PhraseBonusExact(chunk_text_lower, query_lower) ==
  IF chunk_text_lower = query_lower THEN 1000 ELSE 0

\* 1. exact phrase match
PhraseBonus(chunk_text_lower, query_lower) ==
  IF Contains(chunk_text_lower, query_lower) THEN 1000 ELSE 0

\* 4. proximity: some window of len(query_words) chunk words holds every query word
ProximityBonus(chunk_words, query_words) ==
  LET n == Len(query_words)
  IN  IF \E i \in 0..(Len(chunk_words) - n) :
           \A k \in 1..n : \E j \in (i + 1)..(i + n) : chunk_words[j] = query_words[k]
        THEN 300 ELSE 0

\* 8. the headings penalty
HeadingPenalty(chunk_text_lower) ==
  IF StartsWith(chunk_text_lower, WelcomeTo) \/ IsUpper(chunk_text_lower)
    THEN 100 ELSE 0

\* matching_words of a chunk
MatchingWords(chunk, query_words) ==
  LET Count(chunk_text_lower) ==
        Cardinality({k \in 1..Len(query_words) :
                       Contains(chunk_text_lower, query_words[k])})
  IN  Count(Lower(chunk.text))

\* the score of one chunk, lines 529-576. int(percentage_match * 200) is
\* floor(200 * matching / len) for every query of fewer than 40 words.
ChunkScore(chunk, query) ==
  LET Total(query_lower, query_words, chunk_text_lower, matching_words,
            chunk_words) ==
        PhraseBonus(chunk_text_lower, query_lower)
        + (IF matching_words = Len(query_words) /\ query_words # <<>>
             THEN 500 ELSE 0)
        + (IF matching_words > 0
             THEN matching_words * 100
                    + ((200 * matching_words) \div Len(query_words))
             ELSE 0)
        + ProximityBonus(chunk_words, query_words)
        + (IF chunk.is_summary THEN 150 ELSE 0)
        + (IF Len(chunk_words) < 100 THEN 50
           ELSE IF Len(chunk_words) > 300 THEN -30 ELSE 0)
        + 50 * Cardinality({k \in 1..Len(QuestionWords) :
                              /\ Contains(query_lower, QuestionWords[k])
                              /\ Contains(chunk_text_lower, QuestionWords[k])})
        - HeadingPenalty(chunk_text_lower)
      Words(query_lower, query_words, chunk_text_lower) ==
        Total(query_lower, query_words, chunk_text_lower,
              MatchingWords(chunk, query_words), Split(chunk_text_lower))
  IN  Words(Strip(Lower(query)), SearchQueryWords(query), Lower(chunk.text))

\* scored_chunks before the sort: the chunks that score above 0, in index
\* order; idx is the place of the chunk in document_chunks
ScoredChunks(chunks, query) ==
  LET Positive(all) == Select(all, {i \in 1..Len(all) : all[i].score > 0})
      Scored(query_words) ==
        Positive([i \in 1..Len(chunks) |->
                    [idx            |-> i,
                     score          |-> ChunkScore(chunks[i], query),
                     matching_words |-> MatchingWords(chunks[i], query_words)]]
                 \o <<>>)
  IN  Scored(SearchQueryWords(query))

\* scored_chunks.sort(key=score, reverse=True)
SortByScore(scored) ==
  LET Sorted(order) == [p \in 1..Len(scored) |-> scored[order[p]]] \o <<>>
  IN  Sorted(SortDescStable([k \in 1..Len(scored) |-> scored[k].score] \o <<>>))

\* scored_chunks[:limit] after the sort
RankedChunks(chunks, query, limit) ==
  FirstN(SortByScore(ScoredChunks(chunks, query)), limit)

\* text.split(sep) for a one-character sep
SplitOn(text, sep) ==
  LET Cut(at) ==
        [k \in 1..(Len(at) + 1) |->
           SubSeq(text,
                  IF k = 1 THEN 1 ELSE at[k - 1] + 1,
                  IF k = Len(at) + 1 THEN Len(text) ELSE at[k] - 1)] \o <<>>
  IN  Cut(SortedSeq({i \in 1..Len(text) : text[i] = sep}))

\* the lines kept by the clean-up of lines 597-602
CleanLines(lines) ==
  LET Kept(stripped) ==
        Select(stripped,
               {i \in 1..Len(stripped) :
                  /\ stripped[i] # <<>>
                  /\ ~StartsWith(stripped[i], WelcomeUpper)
                  /\ ~IsUpper(stripped[i])})
  IN  Kept([i \in 1..Len(lines) |-> Strip(lines[i])] \o <<>>)

\* re.sub('^' + prefix + '.*?\n', '', text, flags=re.IGNORECASE): drops the
\* first line when it starts with the prefix and a newline ends it
DropFirstLine(text, prefix_lower) ==
  LET Drop(ends) ==
        IF StartsWith(Lower(text), prefix_lower) /\ ends # {}
             /\ SetMin(ends) > Len(prefix_lower)
          THEN SubSeq(text, SetMin(ends) + 1, Len(text))
          ELSE text
  IN  Drop({i \in 1..Len(text) : text[i] = "\n"})

\* the text of a result, lines 594-613
ResultText(chunk_text, query) ==
  LET Bound(cleaned) ==
        IF Len(cleaned) > ResultBudget
          THEN smart_truncate(cleaned, ResultBudget, query)
          ELSE cleaned
      Clean(summarized) ==
        Bound(Join(CleanLines(SplitOn(summarized, "\n")), Newline))
  IN  Strip(DropFirstLine(DropFirstLine(Clean(summarize_chunk(chunk_text, query)),
                                        WelcomeTo),
                          Introduction))

\* the result dictionary of one ranked chunk, lines 615-624
MakeResult(chunk, item, query) ==
  LET Result(summarized_text) ==
        [text              |-> summarized_text,
         filename          |-> chunk.filename,
         score             |-> item.score,
         is_summary        |-> chunk.is_summary,
         original_length   |-> Len(chunk.text),
         summarized_length |-> Len(summarized_text)]
  IN  Result(ResultText(chunk.text, query))

\* the results of the ranked chunks, lines 592-624
SearchResults(chunks, ranked, query) ==
  [p \in 1..Len(ranked) |-> MakeResult(chunks[ranked[p].idx], ranked[p], query)]
    \o <<>>

\* a variant of search_documents without the return of line 523-524
search_documents_unfiltered(chunks, query, limit) ==
  IF chunks = <<>> THEN <<>>
  ELSE SearchResults(chunks, RankedChunks(chunks, query, limit), query)

\* search_documents(query, limit) over the chunk index
search_documents(chunks, query, limit) ==
  IF chunks = <<>> THEN <<>>
  ELSE IF SearchQueryWords(query) = <<>> THEN <<>>
  ELSE SearchResults(chunks, RankedChunks(chunks, query, limit), query)

\* ------------------------------------------------------------------------
\* DocumentRAG: sync_documents and _download_and_process
\* ------------------------------------------------------------------------
SupportedExtensions ==
  {<<".", "p", "d", "f">>, <<".", "d", "o", "c", "x">>, <<".", "d", "o", "c">>,
   <<".", "t", "x", "t">>, <<".", "m", "d">>}

\* _is_supported_file
is_supported_file(filename) ==
  \E ext \in SupportedExtensions : EndsWith(Lower(filename), ext)

\* a byte that is no valid UTF-8
BadByte == "<ff>"

\* bytes.decode('utf-8', errors='ignore'), as open(..., errors='ignore') reads it
Decode(content) == Select(content, {i \in 1..Len(content) : content[i] # BadByte})

\* _extract_text(file_path, filename) on the cached content; parsed tells
\* whether the PDF or DOCX library is installed and reads the file
extract_text(filename, content, parsed) ==
  IF EndsWith(filename, <<".", "t", "x", "t">>) \/ EndsWith(filename, <<".", "m", "d">>)
    THEN Decode(content)
  ELSE IF \/ EndsWith(filename, <<".", "p", "d", "f">>)
          \/ EndsWith(filename, <<".", "d", "o", "c", "x">>)
          \/ EndsWith(filename, <<".", "d", "o", "c">>)
    THEN IF parsed THEN Strip(Decode(content)) ELSE <<>>
  ELSE <<>>

\* the characters of the model, numbered, for the digest of a content
CharCode(c) ==
  IF c \in LowerSet THEN CHOOSE i \in 1..26 : LowerLetters[i] = c
  ELSE IF c \in UpperSet THEN 26 + (CHOOSE i \in 1..26 : UpperLetters[i] = c)
  ELSE IF c = " " THEN 53
  ELSE IF c = "." THEN 54
  ELSE 55

\* the sum of the weighted character codes of content[lo..hi]
RECURSIVE CodeSum(_, _, _)
CodeSum(content, lo, hi) ==
  IF lo > hi THEN 0
  ELSE IF lo = hi THEN (lo * CharCode(content[lo])) % 65536
  ELSE LET mid == (lo + hi) \div 2
       IN  (CodeSum(content, lo, mid) + CodeSum(content, mid + 1, hi)) % 65536

\* hashlib.md5(content).hexdigest(): a digest of the bytes, here 16 bits wide
Digest(content) == CodeSum(content, 1, Len(content))

\* the document dictionary, lines 141-149
MakeDocument(filename, url, content, text_content, now) ==
  [filename     |-> filename,
   content      |-> text_content,
   hash         |-> Digest(content),
   url          |-> url,
   processed_at |-> now,
   word_count   |-> Len(Split(text_content)),
   char_count   |-> Len(text_content)]

\* a variant of RemoveDocument that keeps the old version of the file
KeepDocument(docs, filename) == docs

\* [d for d in self.documents if d['filename'] != filename]
RemoveDocument(docs, filename) ==
  Select(docs, {i \in 1..Len(docs) : docs[i].filename # filename})

\* a variant of RemoveChunks that keeps the chunks of the file
KeepChunks(chunks, filename) == chunks

\* a variant of RemoveChunks that empties the index
ClearChunks(chunks, filename) == <<>>

\* [c for c in self.document_chunks if c['filename'] != filename]
RemoveChunks(chunks, filename) ==
  Select(chunks, {i \in 1..Len(chunks) : chunks[i].filename # filename})

\* a variant of process_document that adds the new chunks only for a file
\* that has none in the index
process_document_partial(docs, chunks, filename, url, content, text_content, now) ==
  IF text_content = <<>>
    THEN [success |-> FALSE, documents |-> docs, document_chunks |-> chunks]
    ELSE [success         |-> TRUE,
          documents       |-> Append(RemoveDocument(docs, filename),
                                     MakeDocument(filename, url, content,
                                                  text_content, now)),
          document_chunks |->
            IF RemoveChunks(chunks, filename) = chunks
              THEN chunks \o create_chunks(text_content, filename)
              ELSE RemoveChunks(chunks, filename)]

\* a variant of process_document that removes the old chunks of the file
\* before it looks at the extracted text
process_document_eager(docs, chunks, filename, url, content, text_content, now) ==
  IF text_content = <<>>
    THEN [success         |-> FALSE,
          documents       |-> docs,
          document_chunks |-> RemoveChunks(chunks, filename)]
    ELSE [success         |-> TRUE,
          documents       |-> Append(RemoveDocument(docs, filename),
                                     MakeDocument(filename, url, content,
                                                  text_content, now)),
          document_chunks |-> RemoveChunks(chunks, filename)
                                \o create_chunks(text_content, filename)]

\* _download_and_process from the extracted text on, lines 134-171: the
\* value it returns and the lists it leaves
process_document(docs, chunks, filename, url, content, text_content, now) ==
  IF text_content = <<>>
    THEN [success |-> FALSE, documents |-> docs, document_chunks |-> chunks]
    ELSE [success         |-> TRUE,
          documents       |-> Append(RemoveDocument(docs, filename),
                                     MakeDocument(filename, url, content,
                                                  text_content, now)),
          document_chunks |-> RemoveChunks(chunks, filename)
                                \o create_chunks(text_content, filename)]

\* the chunks of the index that carry a filename
ChunksOf(chunks, filename) ==
  Select(chunks, {i \in 1..Len(chunks) : chunks[i].filename = filename})

\* ------------------------------------------------------------------------
\* Inputs
\* ------------------------------------------------------------------------
\* n times " a"
Filler(n) == [i \in 1..(2 * n) |-> IF i % 2 = 1 THEN " " ELSE "a"] \o <<>>

\* "Etosha National Park is in northern Namibia where lions roam a a ... a."
TextEtosha ==
  <<"E", "t", "o", "s", "h", "a", " ", "N", "a", "t", "i", "o", "n", "a", "l", " ", "P", "a",
    "r", "k", " ", "i", "s", " ", "i", "n", " ", "n", "o", "r", "t", "h", "e", "r", "n", " ",
    "N", "a", "m", "i", "b", "i", "a", " ", "w", "h", "e", "r", "e", " ", "l", "i", "o", "n",
    "s", " ", "r", "o", "a", "m">> \o Filler(26) \o <<".">>

\* "Welcome to Sossusvlei dunes which are red and very high near the etosha
\* road a a ... a."
TextDunes ==
  <<"W", "e", "l", "c", "o", "m", "e", " ", "t", "o", " ", "S", "o", "s", "s", "u", "s", "v",
    "l", "e", "i", " ", "d", "u", "n", "e", "s", " ", "w", "h", "i", "c", "h", " ", "a", "r",
    "e", " ", "r", "e", "d", " ", "a", "n", "d", " ", "v", "e", "r", "y", " ", "h", "i", "g",
    "h", " ", "n", "e", "a", "r", " ", "t", "h", "e", " ", "e", "t", "o", "s", "h", "a", " ",
    "r", "o", "a", "d">> \o Filler(26) \o <<".">>

\* "Hello world.": a text too short for any chunk
TextShort == <<"H", "e", "l", "l", "o", " ", "w", "o", "r", "l", "d", ".">>

\* a content with no decodable character
ContentBad == <<BadByte>>

FileA == <<"a", ".", "t", "x", "t">>

FileB == <<"b", ".", "m", "d">>

FileUpper == <<"C", ".", "T", "X", "T">>

FilePng == <<"x", ".", "p", "n", "g">>

Filenames == {FileA, FileB, FileUpper, FilePng}

\* the text of a file that was never ingested
NoText == <<"None">>

Texts == {TextEtosha, TextDunes, TextShort, NoText}

\* create_chunks on the texts of the model, computed once
ChunkTable ==
  [f \in Filenames |-> [t \in Texts |->
     IF t = NoText THEN <<>> ELSE create_chunks(t, f)]]

\* the entries of the list the GitHub API returns: a dictionary with a name
\* and a download_url ("file"), a dictionary without download_url ("nourl"),
\* a dictionary whose name is not a string ("noname"), and an entry that is
\* no dictionary ("nodict")
FileEntry(name) == [kind |-> "file", name |-> name]

OtherEntry(kind) == [kind |-> kind, name |-> <<>>]

Listings ==
  {<<FileEntry(FileA), FileEntry(FileB)>>,
   <<FileEntry(FileB)>>,
   <<OtherEntry("nodict"), OtherEntry("nourl"), FileEntry(FilePng),
     FileEntry(FileUpper), FileEntry(FileA)>>,
   <<FileEntry(FileA), OtherEntry("noname")>>}

\* the download_url of a file
UrlOf(name) == <<"/">> \o name

QueryWhere == <<"w", "h", "e", "r", "e", " ", "i", "s", " ", "e", "t", "o", "s", "h", "a">>

\* a query of stop words only
QueryStop == <<"t", "h", "e", " ", "o", "f">>

\* a part of a word of both texts
QueryPart == <<"t", "o", "s", "h">>

Queries == {QueryWhere, QueryStop, QueryPart, TextEtosha}

Limits == {1, 3}

\* "a b c.": a short sentence
SentenceShort == <<"a", " ", "b", " ", "c", ".">>

\* "Etosha is big."
SentenceEtosha ==
  <<"E", "t", "o", "s", "h", "a", " ", "i", "s", " ", "b", "i", "g", ".">>

Sentences == {SentenceShort, SentenceEtosha}

\* a text of n times the sentence
Repeated(sentence, n) == Join([i \in 1..n |-> sentence], Space)

QueryEtosha == <<"e", "t", "o", "s", "h", "a">>

OptionalQueries == {NoQuery, <<>>, QueryEtosha}

TaskIds == {1, 2}

MsgOk == <<"o", "k">>

MsgEtosha == <<"W", "h", "e", "r", "e", " ", "i", "s", " ", "E", "t", "o", "s", "h", "a">>

MsgBlank == <<" ">>

Messages == {MsgOk, MsgEtosha, MsgBlank}

MsgVague == <<"t", "e", "l", "l", " ", "m", "e", " ", "a", "b", "o", "u", "t", " ", "n", "a", "m", "i", "b", "i", "a">>

MsgShort == <<"e", "t", "o", "s", "h", "a", "?">>

MsgAmazing == <<"a", "m", "a", "z", "i", "n", "g", " ", "d", "u", "n", "e", "s">>

MsgExcited == <<"i", " ", "a", "m", " ", "e", "x", "c", "i", "t", "e", "d", " ", "a", "b", "o", "u", "t", " ", "t", "h", "e", " ", "d", "u", "n", "e", "s">>

MsgStuff == <<"s", "t", "u", "f", "f">>

MsgEmpty == <<>>

MsgPlease == <<"p", "l", "e", "a", "s", "e", " ", "s", "h", "o", "w", " ", "m", "e", " ", "t", "h", "e", " ", "d", "u", "n", "e", "s">>

MsgWhat == <<"w", "h", "a", "t", " ", "i", "s", " ", "e", "t", "o", "s", "h", "a", "?">>

\* a message that holds the letter k inside a word
MsgThanks == <<"t", "h", "a", "n", "k", "s">>

\* the messages of the calls where the search results vary
CraftMessages ==
  {MsgOk, MsgEtosha, MsgVague, MsgShort, MsgAmazing, MsgExcited, MsgStuff,
   MsgEmpty, MsgPlease, MsgWhat, MsgThanks}

\* an entry of all_results as generate_response builds it (main.py 270-281)
ResultEtosha ==
  [topic |-> <<"E", "t", "o", "s", "h", "a">>, content |-> <<"A", " ", "p", "a", "r", "k", ".">>]

ResultDunes ==
  [topic |-> <<"D", "u", "n", "e", "s">>, content |-> <<"R", "e", "d", " ", "s", "a", "n", "d", ".">>]

\* a result of search_documents as it is, without 'topic' and 'content'
ResultRaw ==
  [text |-> <<"A", " ", "p", "a", "r", "k", ".">>, filename |-> FileA]

\* the result lists given to generate_intelligent_response
ResultLists ==
  {<<>>, <<ResultEtosha>>, <<ResultEtosha, ResultDunes>>, <<ResultRaw>>}

UserIds == {1, 2}

NoCall == [user |-> 0]

NoSearch == [query |-> NoQuery]

NoProcess == [task |-> 0]

\* the excerpt of a _summarize_chunk call that did not return yet
NoExcerpt == <<"None">>

NoSummary == [chunk_text |-> <<>>, query |-> NoQuery, excerpt |-> NoExcerpt]

\* "The park of Etosha is wide."
SentencePark ==
  <<"T", "h", "e", " ", "p", "a", "r", "k", " ", "o", "f", " ", "E", "t", "o", "s", "h", "a", " ", "i", "s", " ", "w", "i", "d", "e", ".">>

\* "Lions roam a a ... a.": a sentence that holds no word of the queries
SentenceLions ==
  <<"L", "i", "o", "n", "s", " ", "r", "o", "a", "m">> \o Filler(90) \o <<".">>

\* a chunk whose third sentence holds more query words than its first one
TextRanked == Join(<<SentenceEtosha, SentenceLions, SentencePark>>, Space)

QueryEtoshaPark == <<"e", "t", "o", "s", "h", "a", " ", "p", "a", "r", "k">>

\* the calls of _summarize_chunk on chunks whose sentences differ in score
RankedCalls ==
  {[chunk_text |-> TextRanked, query |-> QueryEtoshaPark, excerpt |-> NoExcerpt],
   [chunk_text |-> TextRanked, query |-> QueryEtosha, excerpt |-> NoExcerpt]}

\* the calls of _summarize_chunk the model makes
SummaryCalls ==
  {[chunk_text |-> Repeated(sentence, n), query |-> query, excerpt |-> NoExcerpt] :
     sentence \in Sentences, n \in 1..MaxSentences, query \in OptionalQueries}
    \cup RankedCalls

\* "a a ... a.": a sentence of w words
WordsSentence(w) == <<"a">> \o Filler(w - 1) \o <<".">>

\* the words per sentence of the documents given to _create_chunks: from 25
\* words on such a sentence has 50 characters or more and is no heading
SentenceWords == {25, 30, 40, 50, 60, 100, 150, 300, 600}

\* documents of up to 600 words in sentences of equal length
ChunkDocs ==
  UNION {{Repeated(WordsSentence(w), n) : w \in {v \in SentenceWords : n * v <= 600}} :
           n \in 1..MaxDocSentences}

\* "s1", "s2", ...: the first word of the i-th sentence of a document with
\* headings, so that no two of its sentences are alike
Tag(i) == <<"s", <<"1", "2", "3", "4", "5", "6", "7", "8", "9">>[i]>>

\* the i-th sentence: "s1 is big." for 0 words, a heading because it has
\* fewer than 50 characters; "s1 a a ... a." of w words otherwise
TopicSentence(i, w) ==
  IF w = 0 THEN Tag(i) \o <<" ", "i", "s", " ", "b", "i", "g", ".">>
  ELSE Tag(i) \o Filler(w - 1) \o <<".">>

\* documents of headings and of sentences of 25 and of 60 words
TopicDocs ==
  UNION {{Join([i \in 1..n |-> TopicSentence(i, kinds[i])], Space) :
             kinds \in [1..n -> {0, 25, 60}]} : n \in 1..MaxTopicSentences}

\* no call of _create_chunks yet
NoChunks == [text |-> <<>>, returned |-> FALSE, chunks |-> <<>>]

\* the updates the bot receives, one handle_private_message task each
UpdateIds == 1..MaxUpdates

\* a task whose update did not arrive yet
IdleUpdate ==
  [pc |-> "idle", user |-> 0, message |-> <<>>, seen |-> <<>>, position |-> 0,
   is_repeat |-> FALSE]

IdleTask ==
  [pc |-> "idle", listing |-> <<>>, idx |-> 0, result |-> "none",
   docs0 |-> <<>>, chunks0 |-> <<>>, disturbed |-> FALSE, untouched |-> TRUE]

\* ------------------------------------------------------------------------
\* State
\* ------------------------------------------------------------------------
VARIABLES
  conversation_history,  \* ConversationalIntelligence.conversation_history
  sentLog,               \* history variable: every message each user sent
  lastCall,              \* the last generate_intelligent_response call
  documents,             \* DocumentRAG.documents
  document_chunks,       \* DocumentRAG.document_chunks
  last_sync,             \* DocumentRAG.last_sync, 0 for None
  clock,                 \* datetime.now(), a logical time
  remote,                \* the content of each file of the repository
  sync,                  \* the sync_documents task of each caller
  started,               \* the number of sync_documents calls so far
  edits,                 \* the number of changes of the repository so far
  ingested,              \* history variable: per filename <<the text ingested
                         \* before the last one, the text ingested last>>
  lastProc,              \* history variable: the last _download_and_process return
  lastSearch,            \* the last search_documents call
  lastSummary,           \* the last _summarize_chunk call
  lastChunks,            \* the last _create_chunks call
  updates                \* the handle_private_message task of each update

ciVars == <<conversation_history, sentLog, lastCall>>

ragVars == <<documents, document_chunks, last_sync, clock, remote, sync, started,
             edits, ingested, lastProc, lastSearch, lastSummary>>

auxVars == <<lastChunks, updates>>

vars == <<conversation_history, sentLog, lastCall, documents, document_chunks,
          last_sync, clock, remote, sync, started, edits, ingested, lastProc,
          lastSearch, lastSummary, lastChunks, updates>>

CIInit ==
  /\ conversation_history = <<>>
  /\ sentLog = [u \in UserIds |-> <<>>]
  /\ lastCall = NoCall

RAGInit ==
  /\ documents = <<>>
  /\ document_chunks = <<>>
  /\ last_sync = 0
  /\ clock = 1
  /\ remote = [f \in Filenames |-> IF f = FileB THEN TextDunes ELSE TextEtosha]
  /\ sync = [t \in TaskIds |-> IdleTask]
  /\ started = 0
  /\ edits = 0
  /\ ingested = [f \in Filenames |-> <<NoText, NoText>>]
  /\ lastProc = NoProcess
  /\ lastSearch = NoSearch

AuxInit ==
  /\ lastChunks = NoChunks
  /\ updates = [t \in UpdateIds |-> IdleUpdate]

Init == CIInit /\ RAGInit /\ lastSummary = NoSummary /\ AuxInit

\* ------------------------------------------------------------------------
\* ConversationalIntelligence.generate_intelligent_response
\* ------------------------------------------------------------------------
TotalSent == Len(sentLog[1]) + Len(sentLog[2])

\* generate_intelligent_response, what a call computes: the analysis of line
\* 233 and the response of line 245, or the exception raised there
Respond(hist, user_id, message, search_results) ==
  LET Crafted(analysis) ==
        [user      |-> user_id,
         message   |-> message,
         is_repeat |-> analysis.is_repeat,
         analysis  |-> analysis,
         results   |-> search_results,
         response  |-> craft_response(message, analysis, search_results)]
  IN  Crafted(analyze_user_intent(hist, message, user_id))

\* generate_intelligent_response(message, user_id, search_results, 'search')
generate_intelligent_response(user_id, message, search_results) ==
  /\ TotalSent < MaxCalls
  /\ lastCall' = Respond(conversation_history, user_id, message, search_results)
  /\ conversation_history' = TrackConversation(conversation_history, user_id, message)
  /\ sentLog' = [sentLog EXCEPT ![user_id] = Append(@, message)]
  /\ UNCHANGED ragVars
  /\ UNCHANGED auxVars

CINext ==
  \E u \in UserIds, m \in Messages : generate_intelligent_response(u, m, <<>>)

SpecCI == Init /\ [][CINext]_vars

\* calls with every kind of message and of result list
CraftNext ==
  /\ TotalSent < MaxCrafts
  /\ \E u \in UserIds, m \in CraftMessages, r \in ResultLists :
       generate_intelligent_response(u, m, r)

SpecCraft == Init /\ [][CraftNext]_vars

\* analyze_user_intent(message, user_id) called on its own: it returns the
\* analysis, and _is_repeat_question (185-186) gives an unknown user an empty
\* history; nothing else is written
AnalyzeUserIntent(user_id, message) ==
  /\ lastCall' = [operation |-> "analyze_user_intent",
                  user      |-> user_id,
                  message   |-> message,
                  analysis  |-> analyze_user_intent(conversation_history, message,
                                                    user_id)]
  /\ conversation_history' = EnsureHistory(conversation_history, user_id)
  /\ UNCHANGED sentLog
  /\ UNCHANGED ragVars
  /\ UNCHANGED auxVars

\* analyses on their own between the calls of generate_intelligent_response
AnalyzeNext ==
  \/ /\ TotalSent < MaxCrafts
     /\ \E u \in UserIds, m \in Messages : generate_intelligent_response(u, m, <<>>)
  \/ \E u \in UserIds, m \in Messages : AnalyzeUserIntent(u, m)

SpecAnalyze == Init /\ [][AnalyzeNext]_vars

\* ------------------------------------------------------------------------
\* DocumentRAG.sync_documents, one step from an await to the next
\* ------------------------------------------------------------------------

\* the next entry of the listing from i on at which the loop of lines 69-93
\* stops skipping: a supported file to download, or an entry whose name is no
\* string, on which _is_supported_file raises; 0 at the end of the list
NextStop(listing, i) ==
  LET First(stops) == IF stops = {} THEN 0 ELSE SetMin(stops)
  IN  First({j \in i..Len(listing) :
               \/ listing[j].kind = "noname"
               \/ listing[j].kind = "file" /\ is_supported_file(listing[j].name)})

\* the task record when sync_documents returns
Returned(task, result, docs, chunks) ==
  [IdleTask EXCEPT !.pc = "done", !.result = result,
                   !.disturbed = task.disturbed,
                   !.untouched = (docs = task.docs0 /\ chunks = task.chunks0)]

\* the tasks after task t became rec; wrote tells that t assigned the lists,
\* which every other running sync then sees
SyncWith(t, rec, wrote) ==
  [u \in TaskIds |->
     IF u = t THEN rec
     ELSE IF wrote /\ sync[u].pc \in {"list", "get", "read"}
       THEN [sync[u] EXCEPT !.disturbed = TRUE]
       ELSE sync[u]]

\* the loop of lines 69-100 from entry i of the listing up to the next await
\* or the return; now is the time after what the step did before
Continue(t, listing, i, docs, chunks, wrote, now) ==
  LET To(j) ==
        IF j = 0
          THEN /\ sync' = SyncWith(t, Returned(sync[t], "True", docs, chunks), wrote)
               /\ last_sync' = now
               /\ clock' = now + 1
        ELSE IF listing[j].kind = "noname"
          THEN /\ sync' = SyncWith(t, Returned(sync[t], "False", docs, chunks), wrote)
               /\ last_sync' = last_sync
               /\ clock' = now
        ELSE /\ sync' = SyncWith(t, [sync[t] EXCEPT !.pc = "get",
                                                    !.listing = listing,
                                                    !.idx = j], wrote)
             /\ last_sync' = last_sync
             /\ clock' = now
  IN  To(NextStop(listing, i))

\* sync_documents is called: up to the request of the file list, line 54
SyncStart(t) ==
  /\ sync[t].pc \in {"idle", "done"}
  /\ started < MaxSyncs
  /\ started' = started + 1
  /\ sync' = [sync EXCEPT ![t] = [IdleTask EXCEPT !.pc = "list",
                                                  !.docs0 = documents,
                                                  !.chunks0 = document_chunks]]
  /\ UNCHANGED <<documents, document_chunks, last_sync, clock, remote, edits,
                 ingested, lastProc, lastSearch, lastSummary>>
  /\ UNCHANGED ciVars
  /\ UNCHANGED auxVars

\* the list request fails: a status other than 200, a body that is no list,
\* or an exception of the request; lines 55-63 and 102-104
ListFails(t) ==
  /\ sync[t].pc = "list"
  /\ sync' = SyncWith(t, Returned(sync[t], "False", documents, document_chunks), FALSE)
  /\ UNCHANGED <<documents, document_chunks, last_sync, clock, remote, started,
                 edits, ingested, lastProc, lastSearch, lastSummary>>
  /\ UNCHANGED ciVars
  /\ UNCHANGED auxVars

\* the list arrives: the loop runs up to the first download
ListArrives(t, listing) ==
  /\ sync[t].pc = "list"
  /\ Continue(t, listing, 1, documents, document_chunks, FALSE, clock)
  /\ UNCHANGED <<documents, document_chunks, remote, started, edits, ingested,
                 lastProc, lastSearch, lastSummary>>
  /\ UNCHANGED ciVars
  /\ UNCHANGED auxVars

\* the file of the entry a task is at
CurrentFile(t) == sync[t].listing[sync[t].idx].name

\* the record of a _download_and_process return
ProcessReturn(t, filename, success) ==
  [task |-> t, filename |-> filename, success |-> success,
   flip |-> IF lastProc = NoProcess THEN FALSE ELSE ~lastProc.flip]

\* the download fails: a status other than 200 or an exception of the
\* request; lines 120-122 and 173-175
DownloadFails(t) ==
  /\ sync[t].pc = "get"
  /\ lastProc' = ProcessReturn(t, CurrentFile(t), FALSE)
  /\ Continue(t, sync[t].listing, sync[t].idx + 1, documents, document_chunks,
              FALSE, clock)
  /\ UNCHANGED <<documents, document_chunks, remote, started, edits, ingested,
                 lastSearch, lastSummary>>
  /\ UNCHANGED ciVars
  /\ UNCHANGED auxVars

\* the response arrives with status 200: up to response.read(), line 124
DownloadStarts(t) ==
  /\ sync[t].pc = "get"
  /\ sync' = [sync EXCEPT ![t].pc = "read"]
  /\ UNCHANGED <<documents, document_chunks, last_sync, clock, remote, started,
                 edits, ingested, lastProc, lastSearch, lastSummary>>
  /\ UNCHANGED ciVars
  /\ UNCHANGED auxVars

\* reading the body or writing the cache file raises; lines 124-129, 173-175
ReadFails(t) ==
  /\ sync[t].pc = "read"
  /\ lastProc' = ProcessReturn(t, CurrentFile(t), FALSE)
  /\ Continue(t, sync[t].listing, sync[t].idx + 1, documents, document_chunks,
              FALSE, clock)
  /\ UNCHANGED <<documents, document_chunks, remote, started, edits, ingested,
                 lastSearch, lastSummary>>
  /\ UNCHANGED ciVars
  /\ UNCHANGED auxVars

\* the lists, the history variables and the time after lines 131-171 ran on
\* the content of a file: r is what process_document returns
Processed(t, filename, text, r) ==
  /\ documents' = r.documents
  /\ document_chunks' = r.document_chunks
  /\ lastProc' = ProcessReturn(t, filename, r.success)
  /\ ingested' = IF r.success
                   THEN [ingested EXCEPT ![filename] = <<@[2], text>>]
                   ELSE ingested

\* the body arrives: lines 124-171 and the loop up to the next download
ReadArrives(t, parsed) ==
  /\ sync[t].pc = "read"
  /\ LET Stored(r) ==
           Continue(t, sync[t].listing, sync[t].idx + 1, r.documents,
                    r.document_chunks, r.success,
                    IF r.success THEN clock + 1 ELSE clock)
         Extracted(filename, content, text, r) ==
           Processed(t, filename, text, r) /\ Stored(r)
         Decoded(filename, content, text) ==
           Extracted(filename, content, text,
                     process_document(documents, document_chunks, filename,
                                      UrlOf(filename), content, text, clock))
         Downloaded(filename, content) ==
           Decoded(filename, content, extract_text(filename, content, parsed))
     IN  Downloaded(CurrentFile(t), remote[CurrentFile(t)])
  /\ UNCHANGED <<remote, started, edits, lastSearch, lastSummary>>
  /\ UNCHANGED ciVars
  /\ UNCHANGED auxVars

\* a file of the repository changes
RemoteEdit(f, content) ==
  /\ edits < MaxEdits
  /\ remote[f] # content
  /\ remote' = [remote EXCEPT ![f] = content]
  /\ edits' = edits + 1
  /\ UNCHANGED <<documents, document_chunks, last_sync, clock, sync, started,
                 ingested, lastProc, lastSearch, lastSummary>>
  /\ UNCHANGED ciVars
  /\ UNCHANGED auxVars

EditedFiles == {FileA}

EditedContents == {TextDunes, ContentBad}

SyncNext ==
  \/ \E t \in TaskIds : SyncStart(t)
  \/ \E t \in TaskIds : ListFails(t)
  \/ \E t \in TaskIds, listing \in Listings : ListArrives(t, listing)
  \/ \E t \in TaskIds : DownloadFails(t)
  \/ \E t \in TaskIds : DownloadStarts(t)
  \/ \E t \in TaskIds : ReadFails(t)
  \/ \E t \in TaskIds, parsed \in BOOLEAN : ReadArrives(t, parsed)
  \/ \E f \in EditedFiles, content \in EditedContents : RemoteEdit(f, content)

Next == SyncNext

\* two callers of sync_documents on one event loop, and the repository
Spec == Init /\ [][Next]_vars

\* ------------------------------------------------------------------------
\* DocumentRAG.search_documents while a sync runs
\* ------------------------------------------------------------------------

\* the files some running sync task is downloading
InFlight == {CurrentFile(t) : t \in {u \in TaskIds : sync[u].pc \in {"get", "read"}}}

\* a variant of IndexAfterSearch that keeps the lower-cased text in the chunk
IndexAfterSearchLowered(chunks, query, limit) ==
  [i \in 1..Len(chunks) |-> [chunks[i] EXCEPT !.text = Lower(@)]] \o <<>>

\* self.document_chunks when search_documents returns: lines 492-626 assign
\* to no attribute of self and to no key of a chunk
IndexAfterSearch(chunks, query, limit) == chunks

\* search_documents(query, limit): no await, so one step
Search(query, limit) ==
  /\ lastSearch' = [query    |-> query,
                    limit    |-> limit,
                    seen     |-> document_chunks,
                    versions |-> ingested,
                    during   |-> InFlight,
                    ranked   |-> RankedChunks(document_chunks, query, limit),
                    results  |-> search_documents(document_chunks, query, limit)]
  /\ document_chunks' = IndexAfterSearch(document_chunks, query, limit)
  /\ UNCHANGED <<documents, last_sync, clock, remote, sync,
                 started, edits, ingested, lastProc, lastSummary>>
  /\ UNCHANGED ciVars
  /\ UNCHANGED auxVars

InterleaveNext ==
  \/ SyncStart(1)
  \/ ListFails(1)
  \/ \E listing \in Listings : ListArrives(1, listing)
  \/ DownloadFails(1)
  \/ DownloadStarts(1)
  \/ ReadFails(1)
  \/ \E parsed \in BOOLEAN : ReadArrives(1, parsed)
  \/ \E f \in EditedFiles, content \in EditedContents : RemoteEdit(f, content)
  \/ Search(QueryWhere, 3)

\* one caller of sync_documents, the repository, and searches in between
SpecInterleave == Init /\ [][InterleaveNext]_vars

\* ------------------------------------------------------------------------
\* DocumentRAG.search_documents over the indexes ingestion builds
\* ------------------------------------------------------------------------

\* _download_and_process(file_info) with the download succeeding, as its
\* caller sees it: lines 115-171 at once
download_and_process(filename, content) ==
  /\ clock <= MaxIngests
  /\ LET Extracted(text, r) ==
           /\ Processed(0, filename, text, r)
           /\ clock' = IF r.success THEN clock + 1 ELSE clock
         Decoded(text) ==
           Extracted(text,
                     process_document(documents, document_chunks, filename,
                                      UrlOf(filename), content, text, clock))
     IN  Decoded(extract_text(filename, content, TRUE))
  /\ UNCHANGED <<last_sync, remote, sync, started, edits, lastSearch, lastSummary>>
  /\ UNCHANGED ciVars
  /\ UNCHANGED auxVars

\* "ETOSHA NATIONAL PARK IS IN NORTHERN NAMIBIA WHERE LIONS ROAM A A ... A.":
\* one sentence of 36 words in capitals
TextUpper ==
  <<"E", "T", "O", "S", "H", "A", " ", "N", "A", "T", "I", "O", "N", "A", "L", " ", "P", "A", "R", "K", " ", "I", "S", " ", "I", "N", " ", "N", "O", "R", "T", "H", "E", "R", "N", " ", "N", "A", "M", "I", "B", "I", "A", " ", "W", "H", "E", "R", "E", " ", "L", "I", "O", "N", "S", " ", "R", "O", "A", "M">>
    \o [i \in 1..52 |-> IF i % 2 = 1 THEN " " ELSE "A"] \o <<".">>

\* the files ingested: two of them with the same text, one with a text too
\* short for a chunk and one with a text in capitals
Ingestions ==
  {<<FileA, TextEtosha>>, <<FileB, TextEtosha>>, <<FileB, TextDunes>>,
   <<FileA, TextShort>>, <<FileB, TextUpper>>}

SearchNext ==
  \/ \E file \in Ingestions : download_and_process(file[1], file[2])
  \/ \E query \in Queries, limit \in Limits : Search(query, limit)

SpecSearch == Init /\ [][SearchNext]_vars

\* ------------------------------------------------------------------------
\* DocumentRAG._summarize_chunk on its own
\* ------------------------------------------------------------------------

\* a call of _summarize_chunk(chunk_text, query) is under way
SummarizeInit == CIInit /\ RAGInit /\ lastSummary \in SummaryCalls /\ AuxInit

\* _summarize_chunk(chunk_text, query) returns
Summarize ==
  /\ lastSummary.excerpt = NoExcerpt
  /\ lastSummary' = [lastSummary EXCEPT
                       !.excerpt = summarize_chunk(lastSummary.chunk_text,
                                                   lastSummary.query)]
  /\ UNCHANGED <<documents, document_chunks, last_sync, clock, remote, sync,
                 started, edits, ingested, lastProc, lastSearch>>
  /\ UNCHANGED ciVars
  /\ UNCHANGED auxVars

SpecSummarize == SummarizeInit /\ [][Summarize]_vars

\* ------------------------------------------------------------------------
\* DocumentRAG._create_chunks on its own
\* ------------------------------------------------------------------------

\* a call of _create_chunks(text, filename) is under way
ChunkInit ==
  /\ CIInit
  /\ RAGInit
  /\ lastSummary = NoSummary
  /\ updates = [t \in UpdateIds |-> IdleUpdate]
  /\ lastChunks \in {[text |-> doc, returned |-> FALSE, chunks |-> <<>>] :
                       doc \in ChunkDocs \cup TopicDocs}

\* _create_chunks(text, filename) returns
CreateChunks ==
  /\ ~lastChunks.returned
  /\ lastChunks' = [lastChunks EXCEPT
                      !.returned = TRUE,
                      !.chunks = create_chunks(lastChunks.text, FileA)]
  /\ UNCHANGED <<lastSummary, updates>>
  /\ UNCHANGED <<documents, document_chunks, last_sync, clock, remote, sync,
                 started, edits, ingested, lastProc, lastSearch>>
  /\ UNCHANGED ciVars

SpecChunks == ChunkInit /\ [][CreateChunks]_vars

\* ------------------------------------------------------------------------
\* handle_private_message, one task per update; the tasks overlap at their
\* awaits
\* ------------------------------------------------------------------------

\* a variant of HistoryRead: the history as it was when the update arrived
HistoryReadStale(current, seen) == seen

\* self.conversation_history as the running task reads it in
\* analyze_user_intent and generate_intelligent_response
HistoryRead(current, seen) == current

\* the result lists generate_response passes on
TaskResults == {<<>>, <<ResultEtosha>>}

\* the texts of the updates
TaskMessages == {MsgOk, MsgEtosha}

\* an update with a text arrives and its task is created
Arrive(t, user_id, message) ==
  /\ updates[t].pc = "idle"
  /\ updates' = [updates EXCEPT ![t] =
                   [pc |-> "arrived", user |-> user_id, message |-> message,
                    seen |-> conversation_history, position |-> 0,
                    is_repeat |-> FALSE]]
  /\ UNCHANGED ciVars
  /\ UNCHANGED ragVars
  /\ UNCHANGED lastChunks

\* an update without message text: handle_private_message returns at once
Discard(t) ==
  /\ updates[t].pc = "idle"
  /\ updates' = [updates EXCEPT ![t].pc = "done"]
  /\ UNCHANGED ciVars
  /\ UNCHANGED ragVars
  /\ UNCHANGED lastChunks

\* handle_private_message from its first line to the await of reply_text:
\* generate_response and generate_intelligent_response run without an await
Handle(t, search_results) ==
  LET Handled(hist, user_id, message) ==
        /\ lastCall' = Respond(hist, user_id, message, search_results)
        /\ conversation_history' = TrackConversation(hist, user_id, message)
        /\ sentLog' = [sentLog EXCEPT ![user_id] = Append(@, message)]
        /\ updates' = [updates EXCEPT
                         ![t].pc = "replying",
                         ![t].position = Len(sentLog[user_id]) + 1,
                         ![t].is_repeat = is_repeat_question(hist, user_id, message)]
  IN  /\ updates[t].pc = "arrived"
      /\ Handled(HistoryRead(conversation_history, updates[t].seen),
                 updates[t].user, updates[t].message)
      /\ UNCHANGED ragVars
      /\ UNCHANGED lastChunks

\* await update.message.reply_text(...) returns
Replied(t) ==
  /\ updates[t].pc = "replying"
  /\ updates' = [updates EXCEPT ![t].pc = "done"]
  /\ UNCHANGED ciVars
  /\ UNCHANGED ragVars
  /\ UNCHANGED lastChunks

TasksNext ==
  \/ \E t \in UpdateIds, u \in UserIds, m \in TaskMessages : Arrive(t, u, m)
  \/ \E t \in UpdateIds : Discard(t)
  \/ \E t \in UpdateIds, r \in TaskResults : Handle(t, r)
  \/ \E t \in UpdateIds : Replied(t)

SpecTasks == Init /\ [][TasksNext]_vars

\* ------------------------------------------------------------------------
\* Properties
\* ------------------------------------------------------------------------

\* the history stored for a user, empty when none is stored
HistoryOf(u) ==
  IF u \in DOMAIN conversation_history THEN conversation_history[u] ELSE <<>>

\* C1: after any sequence of generate_intelligent_response calls, the history
\* stored for every user has at most 5 entries and is the last min(k, 5) of
\* the k messages the user sent, in arrival order
C1_HistoryIsLastFive ==
  /\ DOMAIN conversation_history \subseteq UserIds
  /\ \A u \in UserIds :
       /\ Len(HistoryOf(u)) <= 5
       /\ HistoryOf(u) = LastN(sentLog[u], 5)

\* some user sent more than 5 messages, so the oldest one was evicted
C1_Witness == \E u \in UserIds : Len(sentLog[u]) > 5 /\ Len(HistoryOf(u)) = 5

\* C2: when a user sends the same message twice in a row, the analysis of
\* the second one has is_repeat true
C2_IdenticalIsRepeat ==
  lastCall # NoCall =>
    ((/\ Len(sentLog[lastCall.user]) >= 2
      /\ sentLog[lastCall.user][Len(sentLog[lastCall.user])]
           = sentLog[lastCall.user][Len(sentLog[lastCall.user]) - 1])
       => lastCall.is_repeat)

\* C3: the chunks of the index that carry a filename are exactly the chunks
\* created from the text ingested last under that filename, none twice and
\* none of an older text
C3_ChunksOfLatestText ==
  \A f \in Filenames :
    ChunksOf(document_chunks, f) = ChunkTable[f][ingested[f][2]]

\* a file was ingested again with another text than before
C3_Witness ==
  \E f \in Filenames : ingested[f][1] # NoText /\ ingested[f][1] # ingested[f][2]

\* C4: a search sees of every file, also of one a sync is ingesting again at
\* that moment, either all the chunks of the text ingested before or all the
\* chunks of the text ingested last, and no other chunk of that file
C4_SearchSeesWholeVersion ==
  lastSearch # NoSearch =>
    \A f \in Filenames :
      \/ ChunksOf(lastSearch.seen, f) = ChunkTable[f][lastSearch.versions[f][1]]
      \/ ChunksOf(lastSearch.seen, f) = ChunkTable[f][lastSearch.versions[f][2]]

\* a search ran while a sync was downloading a file that is in the index
C4_Witness ==
  /\ lastSearch # NoSearch
  /\ \E f \in lastSearch.during :
       /\ lastSearch.versions[f][2] # NoText
       /\ ChunksOf(lastSearch.seen, f) # <<>>

\* C5: when sync_documents returns False, the document list and the chunk
\* index are what they were when the sync started (no other sync wrote them
\* in between)
C5_FailedSyncLeavesIndex ==
  \A t \in TaskIds :
    (sync[t].pc = "done" /\ sync[t].result = "False" /\ ~sync[t].disturbed)
      => sync[t].untouched

\* C6: a step in which _download_and_process returns False leaves the
\* document list and the chunk index as they were
C6_FailedDocumentSkipped ==
  [][(lastProc' # lastProc /\ ~lastProc'.success)
       => (documents' = documents /\ document_chunks' = document_chunks)]_vars

\* the processing of a file that is in the index failed
C6_Witness ==
  /\ lastProc # NoProcess
  /\ ~lastProc.success
  /\ ChunksOf(document_chunks, lastProc.filename) # <<>>

\* C7: a search whose query has no token left after normalisation returns
\* the empty list, whatever the index holds
C7_EmptyTokensNoResults ==
  (lastSearch # NoSearch /\ SearchQueryWords(lastSearch.query) = <<>>)
    => lastSearch.results = <<>>

\* a query of stop words only was searched in an index that holds chunks
C7_Witness ==
  /\ lastSearch # NoSearch
  /\ SearchQueryWords(lastSearch.query) = <<>>
  /\ lastSearch.query # <<>>
  /\ lastSearch.seen # <<>>

\* C8: a search returns at most limit results, each of a score above 0, in
\* non-increasing order of score, and results of equal score in the order of
\* their chunks in the index
C8_RankedResults ==
  lastSearch # NoSearch =>
    /\ Len(lastSearch.results) <= lastSearch.limit
    /\ SearchQueryWords(lastSearch.query) # <<>>
         => Len(lastSearch.ranked) = Len(lastSearch.results)
    /\ \A p \in 1..Len(lastSearch.results) :
         /\ lastSearch.results[p].score > 0
         /\ lastSearch.results[p].score = lastSearch.ranked[p].score
         /\ lastSearch.results[p].filename
              = lastSearch.seen[lastSearch.ranked[p].idx].filename
         /\ lastSearch.results[p].original_length
              = Len(lastSearch.seen[lastSearch.ranked[p].idx].text)
    /\ \A p \in 1..(Len(lastSearch.results) - 1) :
         /\ lastSearch.results[p].score >= lastSearch.results[p + 1].score
         /\ lastSearch.results[p].score = lastSearch.results[p + 1].score
              => lastSearch.ranked[p].idx < lastSearch.ranked[p + 1].idx

\* a search returned two results of equal score, and as many as its limit
C8_Witness ==
  /\ lastSearch # NoSearch
  /\ Len(lastSearch.results) = lastSearch.limit
  /\ Len(lastSearch.results) >= 2
  /\ lastSearch.results[1].score = lastSearch.results[2].score

C10_WithinBudget ==
  /\ lastSummary.excerpt # NoExcerpt => Len(lastSummary.excerpt) <= SummaryBudget
  /\ lastSearch # NoSearch =>
       \A p \in 1..Len(lastSearch.results) :
         Len(lastSearch.results[p].text) <= ResultBudget

\* str.find(t): the first index at which t occurs in s, 0 when it does not
IndexOf(s, t) ==
  LET At(found) == IF found = {} THEN 0 ELSE SetMin(found)
  IN  At({i \in 1..(Len(s) - Len(t) + 1) : SubSeq(s, i, i + Len(t) - 1) = t})

\* C11: two different sentences of a chunk that the excerpt of
\* _summarize_chunk both holds stand in the excerpt in the order they have in
\* the chunk
C11_KeptInOriginalOrder ==
  lastSummary.excerpt # NoExcerpt =>
    LET Ordered(sentences, excerpt) ==
          \A i \in 1..Len(sentences) : \A j \in (i + 1)..Len(sentences) :
            (/\ sentences[i] # sentences[j]
             /\ IndexOf(excerpt, sentences[i]) > 0
             /\ IndexOf(excerpt, sentences[j]) > 0)
              => IndexOf(excerpt, sentences[i]) < IndexOf(excerpt, sentences[j])
    IN  Ordered(SplitSentences(lastSummary.chunk_text), lastSummary.excerpt)

\* C12: the chunks of every document of the document list start with a
\* summary chunk (is_summary true) of at most 500 characters
C12_FirstChunkIsSummary ==
  \A i \in 1..Len(documents) :
    LET SummaryFirst(chunks) ==
          /\ chunks # <<>>
          /\ chunks[1].is_summary
          /\ Len(chunks[1].text) <= 500
    IN  SummaryFirst(ChunksOf(document_chunks, documents[i].filename))

\* no sentence of the text is a heading for _create_chunks
NoHeadings(text) ==
  \A sentence \in Range(SplitSentences(NormalizeSpace(text))) : ~IsHeading(sentence)

\* C13: _create_chunks of a text of 600 words without headings, with 300
\* words per chunk, returns 2 chunks: the summary chunk and one topical chunk
\* that holds the whole text
C13_TwoChunksFor600Words ==
  (/\ lastChunks.returned
   /\ Len(Split(lastChunks.text)) = 600
   /\ NoHeadings(lastChunks.text))
    => /\ Len(lastChunks.chunks) = 2
       /\ lastChunks.chunks[1].is_summary
       /\ ~lastChunks.chunks[2].is_summary
       /\ lastChunks.chunks[2].text = NormalizeSpace(lastChunks.text)

\* the conditions of the branches of the response crafter that hold for an
\* analysis, numbered in the order of priority; the default branch is 6
BranchesHolding(analysis) ==
  {b \in 1..6 :
     \/ b = 1 /\ analysis.engagement_level = "low"
     \/ b = 2 /\ analysis.is_repeat
     \/ b = 3 /\ analysis.is_vague
     \/ b = 4 /\ BelowConfidenceThreshold(analysis.confidence)
     \/ b = 5 /\ analysis.emotion # "neutral"
     \/ b = 6}

\* what the handler of branch b returns on its own
BranchResponse(b, message, analysis, search_results) ==
  CASE b = 1 -> handle_low_engagement(message, analysis, search_results)
    [] b = 2 -> handle_repeat_question(search_results)
    [] b = 3 -> handle_vague_question(message)
    [] b = 4 -> handle_low_confidence(search_results)
    [] b = 5 -> handle_emotional_query(analysis, search_results)
    [] b = 6 -> match_tone_response(analysis, search_results)

\* C14: the response of a call is what the handler of the first branch whose
\* condition holds returns (low engagement, repeat, vague, confidence below
\* 0.7, emotion other than neutral, default), whatever later conditions hold too
C14_FirstBranchOnly ==
  lastCall # NoCall =>
    lastCall.response =
      BranchResponse(SetMin(BranchesHolding(lastCall.analysis)), lastCall.message,
                     lastCall.analysis, lastCall.results)

\* a repeated vague message: the repeat branch answers although the vague and
\* later conditions hold as well
C14_Witness ==
  /\ lastCall # NoCall
  /\ {2, 3} \subseteq BranchesHolding(lastCall.analysis)
  /\ 1 \notin BranchesHolding(lastCall.analysis)
  /\ lastCall.results # <<>>
  /\ lastCall.response.template = "repeat_more_specific"

\* C15: for the message "ok", whatever the history and the search results,
\* the analysis has engagement_level low and the response is the
\* acknowledgment of _handle_low_engagement, with no field of a search result
C15_OkIsAcknowledged ==
  (lastCall # NoCall /\ lastCall.message = MsgOk)
    => /\ lastCall.analysis.engagement_level = "low"
       /\ lastCall.response = Static("low_got_it")

\* "ok" sent after earlier messages, with search results at hand
C15_Witness ==
  /\ lastCall # NoCall
  /\ lastCall.message = MsgOk
  /\ lastCall.results # <<>>
  /\ Len(sentLog[lastCall.user]) >= 2
  /\ lastCall.response.template = "low_got_it"

\* C16: for the message "tell me about namibia", in every history of the
\* user and with every result list, the analysis has is_vague true and the
\* response is one clarifying question with no field of a search result
C16_VagueAlwaysAsks ==
  (lastCall # NoCall /\ lastCall.message = MsgVague)
    => /\ lastCall.analysis.is_vague
       /\ lastCall.response.template \in ClarifyingQuestions
       /\ lastCall.response.topic = NoField
       /\ lastCall.response.content = NoField

\* C16 as the code has it: is_vague is true in every history; the response is
\* the clarifying question when the message repeats none of the user's last 3
\* messages, and the answer of the repeat branch, which comes first, when it does
C16_VagueAsksUnlessRepeated ==
  (lastCall # NoCall /\ lastCall.message = MsgVague)
    => /\ lastCall.analysis.is_vague
       /\ ~lastCall.analysis.is_repeat
            => lastCall.response = Static("vague_what_interests_you")
       /\ lastCall.analysis.is_repeat
            => lastCall.response = handle_repeat_question(lastCall.results)

\* the message after another one of the same user, not a repetition, with
\* search results at hand: the clarifying question is the response
C16_Witness ==
  /\ lastCall # NoCall
  /\ lastCall.message = MsgVague
  /\ Len(sentLog[lastCall.user]) >= 2
  /\ ~lastCall.analysis.is_repeat
  /\ lastCall.results # <<>>
  /\ lastCall.response.template = "vague_what_interests_you"

\* 0.0 <= c <= 1.0
InUnitInterval(c) ==
  /\ c.tenths > 0 \/ (c.tenths = 0 /\ c.ulps >= 0)
  /\ c.tenths < 10 \/ (c.tenths = 10 /\ c.ulps <= 0)

\* C17: the confidence of the analysis of every message, the empty one
\* included, lies in [0, 1], and so does the confidence _calculate_confidence
\* gives for the message with every other intent
C17_ConfidenceInUnitInterval ==
  lastCall # NoCall =>
    /\ InUnitInterval(lastCall.analysis.confidence)
    /\ \A intent \in Intents :
         InUnitInterval(calculate_confidence(lastCall.message, intent))

\* the empty message: 0.8 - 0.2, the double 0.6000000000000001
C17_Witness ==
  /\ lastCall # NoCall
  /\ lastCall.message = MsgEmpty
  /\ lastCall.analysis.confidence = [tenths |-> 6, ulps |-> 1]

\* C18: the response operation returns a string for every message, analysis
\* and result list, results without 'topic' or 'content' included: no call raises
C18_NeverRaises ==
  lastCall # NoCall => ~lastCall.response.raised

\* "Etosha National Park is in northern Namibia"
PhraseEtosha ==
  <<"E", "t", "o", "s", "h", "a", " ", "N", "a", "t", "i", "o", "n", "a", "l", " ", "P", "a", "r", "k", " ", "i", "s", " ", "i", "n", " ", "n", "o", "r", "t", "h", "e", "r", "n", " ", "N", "a", "m", "i", "b", "i", "a">>

\* 3. the bonus for the query words a chunk holds, lines 541-546
TokenMatchBonus(chunk, query) ==
  LET Bonus(matching_words, query_words) ==
        IF matching_words > 0
          THEN matching_words * 100 + ((200 * matching_words) \div Len(query_words))
          ELSE 0
  IN  Bonus(MatchingWords(chunk, SearchQueryWords(query)), SearchQueryWords(query))

\* 7. the bonus for the question words in both query and chunk, lines 566-569
WhWordBonus(chunk, query) ==
  LET Bonus(query_lower, chunk_text_lower) ==
        50 * Cardinality({k \in 1..Len(QuestionWords) :
                            /\ Contains(query_lower, QuestionWords[k])
                            /\ Contains(chunk_text_lower, QuestionWords[k])})
  IN  Bonus(Strip(Lower(query)), Lower(chunk.text))

\* C19: on the query "where is etosha", a chunk that contains "Etosha
\* National Park is in northern Namibia" scores at least 1000 plus its bonus
\* for matching query words and its bonus for question words, and the
\* excerpt returned for it contains "Etosha"
C19_PhraseChunkScore ==
  (lastSearch # NoSearch /\ lastSearch.query = QueryWhere) =>
    \A i \in 1..Len(lastSearch.seen) :
      Contains(lastSearch.seen[i].text, PhraseEtosha) =>
        /\ ChunkScore(lastSearch.seen[i], QueryWhere)
             >= 1000 + TokenMatchBonus(lastSearch.seen[i], QueryWhere)
                     + WhWordBonus(lastSearch.seen[i], QueryWhere)
        /\ \A p \in 1..Len(lastSearch.results) :
             lastSearch.ranked[p].idx = i =>
               Contains(lastSearch.results[p].text, <<"E", "t", "o", "s", "h", "a">>)

\* the tasks that went through generate_intelligent_response for user u
HandledFor(u) ==
  {t \in UpdateIds : updates[t].position > 0 /\ updates[t].user = u}

\* C20: however the tasks of one user's messages overlap, the history is what
\* the tasks give when they run one after the other in some order: every
\* handled message is appended (none is lost or overwritten), each at a place
\* of its own, and the repeat check of each task saw exactly the messages
\* appended before its own
C20_HistorySerialized ==
  \A u \in UserIds :
    /\ HistoryOf(u) = LastN(sentLog[u], 5)
    /\ Cardinality(HandledFor(u)) = Len(sentLog[u])
    /\ \A t \in HandledFor(u) :
         /\ updates[t].position \in 1..Len(sentLog[u])
         /\ sentLog[u][updates[t].position] = updates[t].message
         /\ \A other \in HandledFor(u) \ {t} :
              updates[other].position # updates[t].position
         /\ updates[t].is_repeat =
              is_repeat_question(
                [v \in {u} |-> LastN(SubSeq(sentLog[u], 1, updates[t].position - 1), 5)],
                u, updates[t].message)

\* two tasks of one user in flight at once: both arrived before either was
\* handled, both are handled and neither has replied, and the later one found
\* the message of the earlier one
C20_Witness ==
  \E t1, t2 \in UpdateIds :
    /\ t1 # t2
    /\ updates[t1].user = updates[t2].user
    /\ updates[t1].pc = "replying"
    /\ updates[t2].pc = "replying"
    /\ updates[t1].position = 1
    /\ updates[t2].position = 2
    /\ updates[t2].seen = <<>>
    /\ updates[t2].is_repeat

\* C21: once analyze_user_intent(message, user_id) has returned, the message
\* is the last entry of the history of that user
C21_AnalysisAppends ==
  "operation" \in DOMAIN lastCall =>
    /\ HistoryOf(lastCall.user) # <<>>
    /\ HistoryOf(lastCall.user)[Len(HistoryOf(lastCall.user))] = lastCall.message

\* the acknowledgments _assess_engagement looks for
LowEffortAcknowledgments ==
  {<<"o", "k">>, <<"h", "m", "m">>, <<"k">>, <<"a", "l", "r", "i", "g", "h", "t">>, <<"w", "h", "a", "t", "e", "v", "e", "r">>}

\* C22: engagement_level is low exactly when the trimmed lower-case message
\* is one of the low-effort acknowledgments; every other message is high if
\* it has more than 10 words or contains "!", and medium otherwise
C22_LowOnlyForAcknowledgments ==
  lastCall # NoCall =>
    lastCall.analysis.engagement_level =
      IF Strip(Lower(lastCall.message)) \in LowEffortAcknowledgments THEN "low"
      ELSE IF \/ Len(Split(lastCall.message)) > 10
              \/ Contains(lastCall.message, <<"!">>) THEN "high"
      ELSE "medium"

\* a chunk with its text in lower case
Lowered(chunk) == [chunk EXCEPT !.text = Lower(chunk.text)]

\* C23: when a search scores the chunks, a chunk whose text starts with
\* "welcome to" (in any case) has the penalty of 100 in its score, and a chunk
\* whose text is all capitals scores 100 less than the same chunk in lower case
C23_UpperCasePenalty ==
  (lastSearch # NoSearch /\ SearchQueryWords(lastSearch.query) # <<>>) =>
    \A i \in 1..Len(lastSearch.seen) :
      /\ StartsWith(Lower(lastSearch.seen[i].text), WelcomeTo)
           => HeadingPenalty(Lower(lastSearch.seen[i].text)) = 100
      /\ (/\ IsUpper(lastSearch.seen[i].text)
          /\ ~StartsWith(Lower(lastSearch.seen[i].text), WelcomeTo))
           => ChunkScore(lastSearch.seen[i], lastSearch.query)
                = ChunkScore(Lowered(lastSearch.seen[i]), lastSearch.query) - 100

\* the places of the topical chunks in the list _create_chunks returned
TopicalPlaces ==
  {k \in 1..Len(lastChunks.chunks) : ~lastChunks.chunks[k].is_summary}

SentencesOfCall == SplitSentences(NormalizeSpace(lastChunks.text))

\* the first sentence after the first one that is a heading, 0 if there is
\* none: the first topic boundary the loop meets with sentences in its buffer
FirstBoundary(sentences) ==
  IF \E j \in 2..Len(sentences) : IsHeading(sentences[j])
    THEN SetMin({j \in 2..Len(sentences) : IsHeading(sentences[j])})
    ELSE 0

\* what the chunks show of the boundary at sentence j, before the text before
\* it has reached the size limit
BoundaryResets(sentences, j, before) ==
  /\ Len(Split(before)) < 50 =>
       \A k \in TopicalPlaces, i \in 1..(j - 1) :
         ~Contains(lastChunks.chunks[k].text, sentences[i])
  /\ Len(Split(before)) >= 50 =>
       /\ TopicalPlaces # {}
       /\ lastChunks.chunks[SetMin(TopicalPlaces)].text = before
  /\ \A k \in TopicalPlaces :
       Contains(lastChunks.chunks[k].text, sentences[j])
         => StartsWith(lastChunks.chunks[k].text, sentences[j])

\* C28: at the first heading that follows other sentences, the buffer starts
\* again whether it was saved or not: sentences of fewer than 50 words in all
\* before the heading are in no topical chunk, sentences of 50 words or more
\* are a chunk of their own, and a chunk that holds the heading starts with it
C28_HeadingResetsBuffer ==
  (lastChunks.returned /\ FirstBoundary(SentencesOfCall) # 0) =>
    BoundaryResets(SentencesOfCall, FirstBoundary(SentencesOfCall),
                   Join(SubSeq(SentencesOfCall, 1, FirstBoundary(SentencesOfCall) - 1),
                        Space))

\* 25 words, a heading, 50 words: the 25 words are dropped at the heading and
\* the one topical chunk starts with the heading
C28_Witness ==
  /\ lastChunks.returned
  /\ Len(SentencesOfCall) = 4
  /\ FirstBoundary(SentencesOfCall) = 2
  /\ Len(Split(SentencesOfCall[1])) = 25
  /\ Cardinality(TopicalPlaces) = 1
  /\ lastChunks.chunks[2].word_count = 53
  /\ StartsWith(lastChunks.chunks[2].text, SentencesOfCall[2])

EarlierMessages ==
  SubSeq(sentLog[lastCall.user], 1, Len(sentLog[lastCall.user]) - 1)

\* two messages share more than 0.6 of their lower-case words
SimilarMessages(a, b) ==
  LET Jaccard(words1, words2) ==
        /\ words1 # {}
        /\ words2 # {}
        /\ 5 * Cardinality(words1 \cap words2) > 3 * Cardinality(words1 \cup words2)
  IN  Jaccard(Range(Split(Lower(a))), Range(Split(Lower(b))))

\* C26: is_repeat is true exactly when one of the last 3 messages the user
\* sent before is similar to the message; a similar message further back,
\* though still among the 5 stored ones, does not make it a repeat
C26_OnlyLastThreeCompared ==
  lastCall # NoCall =>
    (lastCall.is_repeat <=>
       \E k \in 1..Len(EarlierMessages) :
         /\ k > Len(EarlierMessages) - 3
         /\ SimilarMessages(EarlierMessages[k], lastCall.message))

\* the only similar earlier message is the fourth from the end, still in
\* the history when the call was made, and the call found no repeat
C26_Witness ==
  /\ lastCall # NoCall
  /\ Len(EarlierMessages) = 4
  /\ SimilarMessages(EarlierMessages[1], lastCall.message)
  /\ \A k \in 2..4 : ~SimilarMessages(EarlierMessages[k], lastCall.message)
  /\ ~lastCall.is_repeat

\* C27: a call for user a leaves the history of every other user b as it
\* was, and its is_repeat is the one computed from the messages of a alone,
\* however the calls of the users interleave
C27_UsersAreIsolated ==
  [][\A a \in UserIds :
       sentLog'[a] # sentLog[a] =>
         /\ \A b \in UserIds \ {a} :
              (IF b \in DOMAIN conversation_history'
                 THEN conversation_history'[b] ELSE <<>>) = HistoryOf(b)
         /\ lastCall'.user = a
         /\ lastCall'.is_repeat =
              is_repeat_question([v \in {a} |-> LastN(sentLog[a], 5)], a,
                                 lastCall'.message)]_vars

\* user 1 sends, for the first time, the message user 2 has sent twice: no
\* repeat for user 1, and both histories hold their own messages
C27_Witness ==
  /\ lastCall # NoCall
  /\ lastCall.user = 1
  /\ ~lastCall.is_repeat
  /\ Len(sentLog[1]) = 2
  /\ sentLog[1][1] # lastCall.message
  /\ sentLog[2] = <<lastCall.message, lastCall.message>>
  /\ HistoryOf(2) = sentLog[2]
  /\ HistoryOf(1) = sentLog[1]

\* the filenames of the documents of a list
DocumentNames(docs) == {docs[i].filename : i \in 1..Len(docs)}

\* C29: no step takes a filename out of the document list, and the chunks of
\* a file change only in the step in which _download_and_process returns True
\* for that file
C29_IndexedFilesStay ==
  [][/\ DocumentNames(documents) \subseteq DocumentNames(documents')
     /\ \A f \in Filenames :
          ChunksOf(document_chunks', f) # ChunksOf(document_chunks, f) =>
            /\ lastProc' # lastProc
            /\ lastProc'.filename = f
            /\ lastProc'.success]_vars

\* a.txt was indexed, then a later download of it gave no text: the document
\* of the first ingestion and its chunks are still there, beside b.md
C29_Witness ==
  /\ lastProc # NoProcess
  /\ lastProc.filename = FileA
  /\ ~lastProc.success
  /\ edits = 1
  /\ FileA \in DocumentNames(documents)
  /\ FileB \in DocumentNames(documents)
  /\ ChunksOf(document_chunks, FileA) = create_chunks(ingested[FileA][2], FileA)
  /\ ChunksOf(document_chunks, FileA) # <<>>

\* C30: the document list holds one record per filename at most, and every
\* chunk of the index carries the filename of a document of the list
C30_OneRecordPerFile ==
  /\ \A i, j \in 1..Len(documents) :
       documents[i].filename = documents[j].filename => i = j
  /\ \A k \in 1..Len(document_chunks) :
       document_chunks[k].filename \in DocumentNames(documents)

\* two syncs ran at the same time and each ingested a.txt
C30_Witness ==
  /\ ingested[FileA][1] # NoText
  /\ \E t \in TaskIds : sync[t].disturbed
  /\ \A t \in TaskIds : sync[t].pc = "done"
  /\ Len(documents) = 2
  /\ ChunksOf(document_chunks, FileA) # <<>>
  /\ ChunksOf(document_chunks, FileB) # <<>>
====
